---------------------------- MODULE Spec2Model ----------------------------
(***************************************************************************)
(* Batch execution pipeline of ClinicalGenius.                             *)
(*                                                                         *)
(* The model follows services/batch_execution_service.py (the background   *)
(* worker run_batch_execution, the durable mirror persist_execution_status *)
(* and the delayed cleanup thread) and the routes of                       *)
(* routes/analysis_routes.py that create, poll and download an execution.  *)
(*                                                                         *)
(* One step of a worker is one statement that another thread can observe:  *)
(* an assignment to a key of the shared execution dict, a statement on the *)
(* database, or a call to an external client.  Python dict item assignment *)
(* is atomic under the interpreter lock, so a polling request thread sees  *)
(* every state between two such statements.                                *)
(***************************************************************************)
EXTENDS Integers, Sequences, FiniteSets, TLC

(***************************************************************************)
(* Bounds of the model.                                                    *)
(***************************************************************************)
\* Largest number of records the dataset query returns.
MaxRecords == 2

\* Identifiers handed out by uuid.uuid4() in execute_batch.  The model follows
\* one execution from its creation to its eviction; runs of the same batch
\* that overlap in time are not explored.  What an earlier run left in the
\* database is part of the initial state.
ExecIds == {"e1"}

\* The batch every execution of the model is started for.
BatchIds == {"b1"}

(***************************************************************************)
(* Program constants.                                                      *)
(***************************************************************************)
\* persist_execution_status is called when (idx + 1) % PersistEvery == 0.
PersistEvery == 10

(***************************************************************************)
(* Python dicts: a function from the keys that are set to their values.    *)
(***************************************************************************)
\* d.get(k, default)
Get(d, k, default) == IF k \in DOMAIN d THEN d[k] ELSE default

\* d[k] = v
Put(d, k, v) == [x \in (DOMAIN d) \cup {k} |-> IF x = k THEN v ELSE d[x]]

\* del d[k]
Remove(d, k) == [x \in (DOMAIN d) \ {k} |-> d[x]]

\* {}
EmptyDict == [x \in {} |-> TRUE]

\* None, where the value is otherwise a string.
None == "None"

\* A local variable of the worker that has not been assigned yet.
Unassigned == [unassigned |-> TRUE]

VARIABLES
    batch_executions,   \* the global dict execution_id -> execution dict
    pc,                 \* per execution: the statement its worker is at
    all_records,        \* per execution: the records the dataset query returned
    idx,                \* per execution: the index of the row loop
    results,            \* per execution: the list of result rows
    success_count,      \* per execution: the worker's local success counter
    error_count,        \* per execution: the worker's local error counter
    csv_data,           \* per execution: the worker's local CSV text
    exc,                \* per execution: the exception caught at top level
    cleanup,            \* per execution: state of the cleanup thread
    batches,            \* table batches: the ids that have a row
    prompts,            \* table prompts: the batch ids that have a row
    execution_history,  \* table execution_history: batch_id -> its row
    execution_status,   \* table execution_status: batch_id -> its row
    calls,              \* per execution: the external calls made so far and
                        \* how the history save and the upload ended
    response,           \* the last HTTP response sent to a polling client
    prior_history,      \* per execution: table execution_history as it was
                        \* when the execution was created
    call                \* the call of a helper function that is checked on
                        \* its own: its arguments and, once it returned,
                        \* its result

vars == <<batch_executions, pc, all_records, idx, results, success_count,
          error_count, csv_data, exc, cleanup, batches, prompts,
          execution_history, execution_status, calls, response,
          prior_history, call>>

worker_vars == <<all_records, idx, results, success_count, error_count,
                 csv_data, exc>>

\* No helper function is being checked on its own.
NoCall == [fn |-> "none"]

\* What no step of a worker, of the cleanup thread or of a polling request
\* changes.
db_config == <<batches, prompts, prior_history, call>>


(***************************************************************************)
(* Pure helpers of the worker.                                             *)
(***************************************************************************)
\* The batch an execution was started for (execution['batch_id']).
BatchOf(e) == batch_executions[e]["batch_id"]

\* The i-th record of a query result: a mapping with its identifier field.
Record(i) == [Id |-> i]

\* The records a dataset query of n rows returns, in query-result order.
QueryResult(n) == [i \in 1..n |-> Record(i)]

\* The three ways the per-row path ends: the model output parsed as JSON,
\* it did not parse (json.JSONDecodeError), or the path raised.
Outcomes == {"parsed", "raw_response", "error"}

\* The result row appended for a record (lines 258-262 and 267-271).
ResultRow(record, outcome) == [record_id |-> record.Id, response |-> outcome]

\* generate_structured_csv: one data row per result, in result order.
generate_structured_csv(rs) ==
    [header |-> <<"Record ID", "fields">>,
     rows   |-> [i \in 1..Len(rs) |-> <<rs[i].record_id, rs[i].response>>]]

\* The human status string; i and n are the numbers formatted into it.
Status(text, i, n) == [text |-> text, i |-> i, n |-> n]

\* The row persist_execution_status writes for an execution dict.
StatusRow(e, execution) ==
    [execution_id  |-> e,
     status        |-> execution["status"],
     current       |-> execution["current"],
     total         |-> execution["total"],
     success_count |-> Get(execution, "success_count", 0),
     error_count   |-> Get(execution, "error_count", 0),
     complete      |-> IF execution["complete"] THEN 1 ELSE 0,
     success       |-> IF Get(execution, "success", FALSE) THEN 1 ELSE 0,
     error         |-> Get(execution, "error", None)]

\* persist_execution_status: INSERT OR REPLACE of the batch's mirror row; an
\* exception of the database is caught and only logged.
persist_execution_status(e) ==
    \E written \in BOOLEAN :
        execution_status' =
            IF written
            THEN Put(execution_status, BatchOf(e),
                     StatusRow(e, batch_executions[e]))
            ELSE execution_status

\* The row run_batch_execution inserts into execution_history.
HistoryRow(e) ==
    [total_records |-> batch_executions[e]["total"],
     success_count |-> success_count[e],
     error_count   |-> error_count[e],
     csv_data      |-> csv_data[e]]

\* execution[k] = v on the shared dict of execution e.
SetField(e, k, v) ==
    batch_executions' = [batch_executions EXCEPT ![e] = Put(@, k, v)]

\* The worker of e moves from statement `from` to statement `to`.
Goto(e, from, to) == pc[e] = from /\ pc' = [pc EXCEPT ![e] = to]

\* Mutant of Raise: no handler at top level, the worker thread dies.
Raise_Unhandled(e, from, message) ==
    /\ Goto(e, from, "crashed")
    /\ exc' = [exc EXCEPT ![e] = message]

\* An exception propagates to the handler at line 345.
Raise(e, from, message) ==
    /\ Goto(e, from, "L349")
    /\ exc' = [exc EXCEPT ![e] = message]

\* Mutant of Persist: the except clause of line 44 is missing, a failed
\* write propagates to the handler of line 345.
Persist_Propagates(e, from, to) ==
    \/ /\ Goto(e, from, to)
       /\ execution_status' = Put(execution_status, BatchOf(e),
                                  StatusRow(e, batch_executions[e]))
       /\ UNCHANGED exc
    \/ /\ pc[e] = from
       /\ pc' = [pc EXCEPT ![e] = "L349"]
       /\ exc' = [exc EXCEPT ![e] = "database error"]
       /\ UNCHANGED execution_status

\* A call of persist_execution_status at statement `from`: whether or not
\* the write succeeded, the try/except of lines 20-45 returns normally and
\* the worker goes on with statement `to`.
Persist(e, from, to) ==
    /\ Goto(e, from, to)
    /\ persist_execution_status(e)
    /\ UNCHANGED exc

(***************************************************************************)
(* Initial state: the application has started, no execution exists yet.    *)
(* The tables are those of an existing installation: the batch may or may  *)
(* not exist, with or without a prompt configuration.  An earlier          *)
(* successful run of the batch may have left its history row.              *)
(***************************************************************************)
PriorHistoryRow ==
    [total_records |-> 1, success_count |-> 1, error_count |-> 0,
     csv_data |-> generate_structured_csv(<<ResultRow(Record(1), "parsed")>>)]

Init ==
    /\ batch_executions = EmptyDict
    /\ pc = [e \in ExecIds |-> "idle"]
    /\ all_records = [e \in ExecIds |-> <<>>]
    /\ idx = [e \in ExecIds |-> 0]
    /\ results = [e \in ExecIds |-> <<>>]
    /\ success_count = [e \in ExecIds |-> 0]
    /\ error_count = [e \in ExecIds |-> 0]
    /\ csv_data = [e \in ExecIds |-> Unassigned]
    /\ exc = [e \in ExecIds |-> None]
    /\ cleanup = [e \in ExecIds |-> "none"]
    /\ batches \in SUBSET BatchIds
    /\ prompts \in SUBSET BatchIds
    /\ \E had \in SUBSET BatchIds :
           execution_history = [b \in had |-> PriorHistoryRow]
    /\ execution_status = EmptyDict
    /\ calls = [e \in ExecIds |->
                  [dataset |-> 0, llm |-> 0, upload |-> 0,
                   upload_raised |-> FALSE, history_saved |-> FALSE]]
    /\ response = [route |-> "none"]
    /\ prior_history = [e \in ExecIds |-> EmptyDict]
    /\ call = NoCall


(***************************************************************************)
(* routes/analysis_routes.py: execute_batch.  Creates the execution dict   *)
(* and starts the worker thread.                                           *)
(***************************************************************************)
NewExecution(e, b) ==
    [x \in {"execution_id", "batch_id", "status", "current", "total",
            "complete", "record_ids"} |->
        CASE x = "execution_id" -> e
          [] x = "batch_id"     -> b
          [] x = "status"       -> Status("Starting...", 0, 0)
          [] x = "current"      -> 0
          [] x = "total"        -> 0
          [] x = "complete"     -> FALSE
          [] x = "record_ids"   -> None]

execute_batch(e) ==
    /\ pc[e] = "idle"
    /\ \E b \in BatchIds :
         batch_executions' = Put(batch_executions, e, NewExecution(e, b))
    /\ pc' = [pc EXCEPT ![e] = "L90"]
    /\ response' = [route |-> "execute-batch", code |-> 200, id |-> e]
    /\ prior_history' = [prior_history EXCEPT ![e] = execution_history]
    /\ UNCHANGED <<worker_vars, cleanup, batches, prompts, execution_history,
                   execution_status, calls, call>>

(***************************************************************************)
(* services/batch_execution_service.py: run_batch_execution, setup.        *)
(***************************************************************************)
\* Line 90: execution['status'] = 'Initializing...'
SetInitializing(e) ==
    /\ Goto(e, "L90", "L91")
    /\ SetField(e, "status", Status("Initializing...", 0, 0))
    /\ UNCHANGED <<worker_vars, cleanup, db_config, execution_history,
                   execution_status, calls, response>>

\* Line 91: persist_execution_status(batch_id, execution)
PersistStart(e) ==
    /\ Persist(e, "L91", "L94")
    /\ UNCHANGED <<batch_executions, all_records, idx, results, success_count,
                   error_count, csv_data, cleanup, db_config,
                   execution_history, calls, response>>

\* Line 99: `if not batch_row` is false.
HasBatch(b) == b \in batches

\* Mutant of HasPrompt: the check of line 133 is missing.
HasPrompt_Unchecked(b) == TRUE

\* Line 133: `if not prompt_row` is false.
HasPrompt(b) == b \in prompts

\* Lines 94-122: open the connection, select the batch and its dataset
\* configuration.  The database may raise; no row takes the branch of
\* line 99.
GetBatch(e) ==
    /\ \/ Raise(e, "L94", "database error")
       \/ /\ Goto(e, "L94", "L100")
          /\ ~HasBatch(BatchOf(e))
          /\ UNCHANGED exc
       \/ /\ Goto(e, "L94", "L125")
          /\ HasBatch(BatchOf(e))
          /\ UNCHANGED exc
    /\ UNCHANGED <<batch_executions, all_records, idx, results, success_count,
                   error_count, csv_data, cleanup, db_config,
                   execution_history, execution_status, calls, response>>

\* Lines 100-104: the batch does not exist.
BatchNotFoundComplete(e) ==
    /\ Goto(e, "L100", "L101")
    /\ SetField(e, "complete", TRUE)
    /\ UNCHANGED <<worker_vars, cleanup, db_config, execution_history,
                   execution_status, calls, response>>

BatchNotFoundSuccess(e) ==
    /\ Goto(e, "L101", "L102")
    /\ SetField(e, "success", FALSE)
    /\ UNCHANGED <<worker_vars, cleanup, db_config, execution_history,
                   execution_status, calls, response>>

BatchNotFoundError(e) ==
    /\ Goto(e, "L102", "done")
    /\ SetField(e, "error", "Batch not found")
    /\ UNCHANGED <<worker_vars, cleanup, db_config, execution_history,
                   execution_status, calls, response>>

\* Lines 125-126: DELETE FROM execution_history WHERE batch_id = ?; commit.
DeleteOldHistory(e) ==
    /\ \/ /\ Raise(e, "L125", "database error")
          /\ UNCHANGED execution_history
       \/ /\ Goto(e, "L125", "L129")
          /\ execution_history' = Remove(execution_history, BatchOf(e))
          /\ UNCHANGED exc
    /\ UNCHANGED <<batch_executions, all_records, idx, results, success_count,
                   error_count, csv_data, cleanup, db_config,
                   execution_status, calls, response>>

\* Lines 129-133: select the prompt configuration of the batch.
GetPrompt(e) ==
    /\ \/ Raise(e, "L129", "database error")
       \/ /\ Goto(e, "L129", "L134")
          /\ ~HasPrompt(BatchOf(e))
          /\ UNCHANGED exc
       \/ /\ Goto(e, "L129", "L149")
          /\ HasPrompt(BatchOf(e))
          /\ UNCHANGED exc
    /\ UNCHANGED <<batch_executions, all_records, idx, results, success_count,
                   error_count, csv_data, cleanup, db_config,
                   execution_history, execution_status, calls, response>>

\* Lines 134-137: the batch has no prompt configuration.
NoPromptComplete(e) ==
    /\ Goto(e, "L134", "L135")
    /\ SetField(e, "complete", TRUE)
    /\ UNCHANGED <<worker_vars, cleanup, db_config, execution_history,
                   execution_status, calls, response>>

NoPromptSuccess(e) ==
    /\ Goto(e, "L135", "L136")
    /\ SetField(e, "success", FALSE)
    /\ UNCHANGED <<worker_vars, cleanup, db_config, execution_history,
                   execution_status, calls, response>>

NoPromptError(e) ==
    /\ Goto(e, "L136", "done")
    /\ SetField(e, "error", "No prompt configuration found")
    /\ UNCHANGED <<worker_vars, cleanup, db_config, execution_history,
                   execution_status, calls, response>>

\* Line 149: execution['status'] = 'Loading dataset records...'
SetLoading(e) ==
    /\ Goto(e, "L149", "L156")
    /\ SetField(e, "status", Status("Loading dataset records...", 0, 0))
    /\ UNCHANGED <<worker_vars, cleanup, db_config, execution_history,
                   execution_status, calls, response>>

\* Lines 152-210: resolve the query fields (get_dataset_fields) and query
\* the dataset.  Either client call may raise; otherwise all_records is the
\* list the query returned.
QueryDataset(e) ==
    /\ calls' = [calls EXCEPT ![e].dataset = @ + 1]
    /\ \/ /\ Raise(e, "L156", "Error querying dataset")
          /\ UNCHANGED all_records
       \/ /\ Goto(e, "L156", "L212")
          /\ \E n \in 0..MaxRecords :
               all_records' = [all_records EXCEPT ![e] = QueryResult(n)]
          /\ UNCHANGED exc
    /\ UNCHANGED <<batch_executions, idx, results, success_count,
                   error_count, csv_data, cleanup, db_config,
                   execution_history, execution_status, response>>

\* Line 212: execution['total'] = len(all_records)
SetTotal(e) ==
    /\ Goto(e, "L212", "L213")
    /\ SetField(e, "total", Len(all_records[e]))
    /\ UNCHANGED <<worker_vars, cleanup, db_config, execution_history,
                   execution_status, calls, response>>

\* Line 213: execution['status'] = f'Processing {len(all_records)} records...'
SetProcessing(e) ==
    /\ Goto(e, "L213", "L214")
    /\ SetField(e, "status",
                Status("Processing records...", 0, Len(all_records[e])))
    /\ UNCHANGED <<worker_vars, cleanup, db_config, execution_history,
                   execution_status, calls, response>>

\* Line 214: persist_execution_status(batch_id, execution)
PersistTotal(e) ==
    /\ Persist(e, "L214", "L217")
    /\ UNCHANGED <<batch_executions, all_records, idx, results, success_count,
                   error_count, csv_data, cleanup, db_config,
                   execution_history, calls, response>>

\* Lines 217-224: load the global settings, configure the LLM client and
\* initialise the loop's locals.  Loading or applying the settings may raise.
ConfigureClient(e) ==
    /\ \/ /\ Raise(e, "L217", "settings error")
          /\ UNCHANGED <<results, success_count, error_count, idx>>
       \/ /\ Goto(e, "L217", "L226")
          /\ results' = [results EXCEPT ![e] = <<>>]
          /\ success_count' = [success_count EXCEPT ![e] = 0]
          /\ error_count' = [error_count EXCEPT ![e] = 0]
          /\ idx' = [idx EXCEPT ![e] = 0]
          /\ UNCHANGED exc
    /\ UNCHANGED <<batch_executions, all_records, csv_data, cleanup,
                   db_config, execution_history, execution_status, calls,
                   response>>


(***************************************************************************)
(* run_batch_execution: the row loop (lines 226-281).                      *)
(***************************************************************************)
\* Lines 253, 256 and 266: what one row adds to the local counters.
SuccessInc(outcome) == IF outcome = "parsed" THEN 1 ELSE 0

\* Mutant of ErrorInc: only the handler of line 264 counts an error.
ErrorInc_RaisedOnly(outcome) == IF outcome = "error" THEN 1 ELSE 0

ErrorInc(outcome) == IF outcome = "parsed" THEN 0 ELSE 1

\* Mutant of AppendResult: the handler of line 264 only counts the error.
AppendResult_DropErrors(rs, record, outcome) ==
    IF outcome = "error" THEN rs ELSE Append(rs, ResultRow(record, outcome))

\* Lines 258-262 and 267-271: the result row is appended at the end of the
\* try body, or by the handler of line 264 when the body raised.
AppendResult(rs, record, outcome) == Append(rs, ResultRow(record, outcome))

\* Mutant of NextCurrent: the zero-based index is stored.
NextCurrent_ZeroBased(i) == i

\* Line 274: the value assigned to execution['current'] after row idx.
NextCurrent(i) == i + 1

\* Lines 226-271: one pass of the loop body for all_records[idx].  The record
\* is rendered, the model is called and its answer parsed; the pass ends in
\* one of the three outcomes.
ProcessRecord(e) ==
    /\ Goto(e, "L226", "L274")
    /\ idx[e] < Len(all_records[e])
    /\ \E outcome \in Outcomes :
         /\ results' = [results EXCEPT ![e] =
                          AppendResult(@, all_records[e][idx[e] + 1], outcome)]
         /\ success_count' = [success_count EXCEPT ![e] = @ + SuccessInc(outcome)]
         /\ error_count' = [error_count EXCEPT ![e] = @ + ErrorInc(outcome)]
    /\ calls' = [calls EXCEPT ![e].llm = @ + 1]
    /\ UNCHANGED <<batch_executions, all_records, idx, csv_data, exc, cleanup,
                   db_config, execution_history, execution_status, response>>

\* Mutant of ProgressFields: the counters are stored before current.
ProgressFields_CountsFirst == <<"success_count", "error_count", "current">>

\* Lines 274-276: the keys of the progress update, in statement order.
ProgressFields == <<"current", "success_count", "error_count">>

\* Lines 274-276: the value each key of the progress update is given.
ProgressValue(e, field) ==
    CASE field = "current"       -> NextCurrent(idx[e])
      [] field = "success_count" -> success_count[e]
      [] field = "error_count"   -> error_count[e]

\* Line 274: execution['current'] = idx + 1
UpdateCurrent(e) ==
    /\ Goto(e, "L274", "L275")
    /\ SetField(e, ProgressFields[1], ProgressValue(e, ProgressFields[1]))
    /\ UNCHANGED <<worker_vars, cleanup, db_config, execution_history,
                   execution_status, calls, response>>

\* Line 275: execution['success_count'] = success_count
UpdateSuccessCount(e) ==
    /\ Goto(e, "L275", "L276")
    /\ SetField(e, ProgressFields[2], ProgressValue(e, ProgressFields[2]))
    /\ UNCHANGED <<worker_vars, cleanup, db_config, execution_history,
                   execution_status, calls, response>>

\* Line 276: execution['error_count'] = error_count
UpdateErrorCount(e) ==
    /\ Goto(e, "L276", "L277")
    /\ SetField(e, ProgressFields[3], ProgressValue(e, ProgressFields[3]))
    /\ UNCHANGED <<worker_vars, cleanup, db_config, execution_history,
                   execution_status, calls, response>>

\* Mutant of UpdateStatus: the status names the zero-based index.
UpdateStatus_ZeroBased(e) ==
    /\ Goto(e, "L277", "L280")
    /\ SetField(e, "status",
                Status("Processing record", idx[e], Len(all_records[e])))
    /\ UNCHANGED <<worker_vars, cleanup, db_config, execution_history,
                   execution_status, calls, response>>

\* Line 277: execution['status'] = f'Processing record {idx + 1} of {len(all_records)}'
UpdateStatus(e) ==
    /\ Goto(e, "L277", "L280")
    /\ SetField(e, "status",
                Status("Processing record", idx[e] + 1, Len(all_records[e])))
    /\ UNCHANGED <<worker_vars, cleanup, db_config, execution_history,
                   execution_status, calls, response>>

\* Mutant of PersistDue: the periodic write of lines 280-281 is missing.
PersistDue_Never(i) == FALSE

\* Line 280: if (idx + 1) % 10 == 0
PersistDue(i) == (i + 1) % PersistEvery = 0

\* Lines 280-281: persist every PersistEvery records, then the next pass.
PersistProgress(e) ==
    /\ IF PersistDue(idx[e])
       THEN Persist(e, "L280", "L226")
       ELSE Goto(e, "L280", "L226") /\ UNCHANGED <<execution_status, exc>>
    /\ idx' = [idx EXCEPT ![e] = @ + 1]
    /\ UNCHANGED <<batch_executions, all_records, results, success_count,
                   error_count, csv_data, cleanup, db_config,
                   execution_history, calls, response>>

(***************************************************************************)
(* run_batch_execution: completion (lines 283-343).                        *)
(***************************************************************************)
\* Line 284, reached when the loop is exhausted.
SetGeneratingCsv(e) ==
    /\ Goto(e, "L226", "L285")
    /\ idx[e] = Len(all_records[e])
    /\ SetField(e, "status", Status("Generating CSV...", 0, 0))
    /\ UNCHANGED <<worker_vars, cleanup, db_config, execution_history,
                   execution_status, calls, response>>

\* Lines 285-286: csv_data = generate_structured_csv(results, ...)
GenerateCsv(e) ==
    /\ \/ /\ Raise(e, "L285", "csv error")
          /\ UNCHANGED csv_data
       \/ /\ Goto(e, "L285", "L289")
          /\ csv_data' = [csv_data EXCEPT ![e] = generate_structured_csv(results[e])]
          /\ UNCHANGED exc
    /\ UNCHANGED <<batch_executions, all_records, idx, results, success_count,
                   error_count, cleanup, db_config, execution_history,
                   execution_status, calls, response>>

\* Line 289: execution['status'] = 'Saving to history...'
SetSavingHistory(e) ==
    /\ Goto(e, "L289", "L291")
    /\ SetField(e, "status", Status("Saving to history...", 0, 0))
    /\ UNCHANGED <<worker_vars, cleanup, db_config, execution_history,
                   execution_status, calls, response>>

\* Lines 290-316: INSERT OR REPLACE INTO execution_history; an exception is
\* caught at line 315 and only logged.
SaveHistory(e) ==
    /\ Goto(e, "L291", "L319")
    /\ \E saved \in BOOLEAN :
         /\ execution_history' =
               IF saved
               THEN Put(execution_history, BatchOf(e), HistoryRow(e))
               ELSE execution_history
         /\ calls' = [calls EXCEPT ![e].history_saved = saved]
    /\ UNCHANGED <<batch_executions, worker_vars, cleanup, db_config,
                   execution_status, response>>

\* Line 319: execution['status'] = 'Uploading to Salesforce...'
SetUploading(e) ==
    /\ Goto(e, "L319", "L321")
    /\ SetField(e, "status", Status("Uploading to Salesforce...", 0, 0))
    /\ UNCHANGED <<worker_vars, cleanup, db_config, execution_history,
                   execution_status, calls, response>>

\* Lines 320-324: upload_to_crm_analytics; whether it returns or raises,
\* control continues at line 327.
Upload(e) ==
    /\ Goto(e, "L321", "L327")
    /\ \E raised \in BOOLEAN :
         calls' = [calls EXCEPT ![e].upload = @ + 1,
                                ![e].upload_raised = raised]
    /\ UNCHANGED <<batch_executions, worker_vars, cleanup, db_config,
                   execution_history, execution_status, response>>

\* Line 327: execution['complete'] = True
MarkComplete(e) ==
    /\ Goto(e, "L327", "L328")
    /\ SetField(e, "complete", TRUE)
    /\ UNCHANGED <<worker_vars, cleanup, db_config, execution_history,
                   execution_status, calls, response>>

\* Line 328: execution['success'] = True
MarkSuccess(e) ==
    /\ Goto(e, "L328", "L329")
    /\ SetField(e, "success", TRUE)
    /\ UNCHANGED <<worker_vars, cleanup, db_config, execution_history,
                   execution_status, calls, response>>

\* Line 329: execution['csv_data'] = csv_data
AttachCsv(e) ==
    /\ Goto(e, "L329", "L330")
    /\ SetField(e, "csv_data", csv_data[e])
    /\ UNCHANGED <<worker_vars, cleanup, db_config, execution_history,
                   execution_status, calls, response>>

\* Line 330: execution['csv_filename'] = csv_filename
AttachFilename(e) ==
    /\ Goto(e, "L330", "L331")
    /\ SetField(e, "csv_filename", "batch.csv")
    /\ UNCHANGED <<worker_vars, cleanup, db_config, execution_history,
                   execution_status, calls, response>>

\* Line 331: execution['status'] = 'Complete'
SetStatusComplete(e) ==
    /\ Goto(e, "L331", "L332")
    /\ SetField(e, "status", Status("Complete", 0, 0))
    /\ UNCHANGED <<worker_vars, cleanup, db_config, execution_history,
                   execution_status, calls, response>>

\* Line 332: persist_execution_status(batch_id, execution)
PersistComplete(e) ==
    /\ Persist(e, "L332", "L341")
    /\ UNCHANGED <<batch_executions, all_records, idx, results, success_count,
                   error_count, csv_data, cleanup, db_config,
                   execution_history, calls, response>>

\* Lines 341-343: start the cleanup thread.
StartCleanup(e) ==
    /\ Goto(e, "L341", "done")
    /\ cleanup' = [cleanup EXCEPT ![e] = "sleeping"]
    /\ UNCHANGED <<batch_executions, worker_vars, db_config,
                   execution_history, execution_status, calls, response>>

(***************************************************************************)
(* run_batch_execution: the handler of line 345.                           *)
(***************************************************************************)
\* Line 349: execution['complete'] = True
FailComplete(e) ==
    /\ Goto(e, "L349", "L350")
    /\ SetField(e, "complete", TRUE)
    /\ UNCHANGED <<worker_vars, cleanup, db_config, execution_history,
                   execution_status, calls, response>>

\* Line 350: execution['success'] = False
FailSuccess(e) ==
    /\ Goto(e, "L350", "L351")
    /\ SetField(e, "success", FALSE)
    /\ UNCHANGED <<worker_vars, cleanup, db_config, execution_history,
                   execution_status, calls, response>>

\* Line 351: execution['error'] = str(e)
FailError(e) ==
    /\ Goto(e, "L351", "L352")
    /\ SetField(e, "error", exc[e])
    /\ UNCHANGED <<worker_vars, cleanup, db_config, execution_history,
                   execution_status, calls, response>>

\* Line 352: persist_execution_status(batch_id, execution)
PersistFailed(e) ==
    /\ Persist(e, "L352", "L361")
    /\ UNCHANGED <<batch_executions, all_records, idx, results, success_count,
                   error_count, csv_data, cleanup, db_config,
                   execution_history, calls, response>>

\* Lines 361-363: start the cleanup thread.
StartCleanupFailed(e) ==
    /\ Goto(e, "L361", "done")
    /\ cleanup' = [cleanup EXCEPT ![e] = "sleeping"]
    /\ UNCHANGED <<batch_executions, worker_vars, db_config,
                   execution_history, execution_status, calls, response>>

\* Mutant of cleanup_execution: the timer is started with the worker, not
\* after the entry became terminal.
cleanup_execution_Early(e) ==
    /\ pc[e] # "idle"
    /\ cleanup[e] # "done"
    /\ cleanup' = [cleanup EXCEPT ![e] = "done"]
    /\ batch_executions' =
          IF e \in DOMAIN batch_executions
          THEN Remove(batch_executions, e)
          ELSE batch_executions
    /\ UNCHANGED <<pc, worker_vars, db_config, execution_history,
                   execution_status, calls, response>>

\* cleanup_execution (lines 335-339 and 355-359): after the sleep, delete
\* the entry if it is still in the dict.
cleanup_execution(e) ==
    /\ cleanup[e] = "sleeping"
    /\ cleanup' = [cleanup EXCEPT ![e] = "done"]
    /\ batch_executions' =
          IF e \in DOMAIN batch_executions
          THEN Remove(batch_executions, e)
          ELSE batch_executions
    /\ UNCHANGED <<pc, worker_vars, db_config, execution_history,
                   execution_status, calls, response>>


(***************************************************************************)
(* routes/analysis_routes.py: the requests of a polling client.  They may  *)
(* name any execution id, known or not.                                    *)
(***************************************************************************)
\* get_batch_progress: the body is the execution dict itself.
BatchProgress(e) ==
    IF e \in DOMAIN batch_executions
    THEN [route |-> "batch-progress", code |-> 200, id |-> e,
          execution |-> batch_executions[e]]
    ELSE [route |-> "batch-progress", code |-> 404, id |-> e,
          error |-> "Execution not found"]

get_batch_progress(e) ==
    /\ response' = BatchProgress(e)
    /\ UNCHANGED <<batch_executions, pc, worker_vars, cleanup, db_config,
                   execution_history, execution_status, calls>>

\* Mutant of BatchCsv: the check of line 684 is missing.
BatchCsv_NoCompleteCheck(e) ==
    IF e \notin DOMAIN batch_executions
    THEN [route |-> "download-batch-csv", code |-> 404, id |-> e,
          error |-> "Execution not found"]
    ELSE IF "csv_data" \notin DOMAIN batch_executions[e]
    THEN [route |-> "download-batch-csv", code |-> 404, id |-> e,
          error |-> "CSV data not available"]
    ELSE [route |-> "download-batch-csv", code |-> 200, id |-> e,
          body |-> batch_executions[e]["csv_data"]]

\* download_batch_csv: the checks of lines 679-688, then the CSV bytes.
BatchCsv(e) ==
    IF e \notin DOMAIN batch_executions
    THEN [route |-> "download-batch-csv", code |-> 404, id |-> e,
          error |-> "Execution not found"]
    ELSE IF ~Get(batch_executions[e], "complete", FALSE)
    THEN [route |-> "download-batch-csv", code |-> 400, id |-> e,
          error |-> "Execution not complete"]
    ELSE IF "csv_data" \notin DOMAIN batch_executions[e]
    THEN [route |-> "download-batch-csv", code |-> 404, id |-> e,
          error |-> "CSV data not available"]
    ELSE [route |-> "download-batch-csv", code |-> 200, id |-> e,
          body |-> batch_executions[e]["csv_data"]]

download_batch_csv(e) ==
    /\ response' = BatchCsv(e)
    /\ UNCHANGED <<batch_executions, pc, worker_vars, cleanup, db_config,
                   execution_history, execution_status, calls>>

\* download_history_csv: the CSV text of the batch's history row.
HistoryCsv(b) ==
    IF b \notin DOMAIN execution_history
    THEN [route |-> "history-csv", code |-> 404, id |-> b,
          error |-> "Execution history not found"]
    ELSE [route |-> "history-csv", code |-> 200, id |-> b,
          body |-> execution_history[b]["csv_data"]]

download_history_csv(b) ==
    /\ response' = HistoryCsv(b)
    /\ UNCHANGED <<batch_executions, pc, worker_vars, cleanup, db_config,
                   execution_history, execution_status, calls>>

\* Mutant of BatchStatus: the persisted row is looked up before the active
\* executions.
BatchStatus_PersistedFirst(b) ==
    IF b \in DOMAIN execution_status
    THEN [route |-> "batch-status", code |-> 200, id |-> b,
          has_active_execution |-> FALSE, has_persisted_status |-> TRUE,
          status |-> execution_status[b]]
    ELSE IF \E e \in DOMAIN batch_executions :
               batch_executions[e]["batch_id"] = b
    THEN LET e == CHOOSE x \in DOMAIN batch_executions :
                      batch_executions[x]["batch_id"] = b
         IN  [route |-> "batch-status", code |-> 200, id |-> b,
              has_active_execution |-> TRUE, execution_id |-> e,
              execution |-> batch_executions[e]]
    ELSE [route |-> "batch-status", code |-> 200, id |-> b,
          has_active_execution |-> FALSE, has_persisted_status |-> FALSE]

\* get_batch_status: an execution of the batch that is in the dict (lines
\* 631-638), else the batch's row of execution_status (lines 641-654), else
\* neither (lines 656-660).
BatchStatus(b) ==
    IF \E e \in DOMAIN batch_executions : batch_executions[e]["batch_id"] = b
    THEN LET e == CHOOSE x \in DOMAIN batch_executions :
                      batch_executions[x]["batch_id"] = b
         IN  [route |-> "batch-status", code |-> 200, id |-> b,
              has_active_execution |-> TRUE, execution_id |-> e,
              execution |-> batch_executions[e]]
    ELSE IF b \in DOMAIN execution_status
    THEN [route |-> "batch-status", code |-> 200, id |-> b,
          has_active_execution |-> FALSE, has_persisted_status |-> TRUE,
          status |-> execution_status[b]]
    ELSE [route |-> "batch-status", code |-> 200, id |-> b,
          has_active_execution |-> FALSE, has_persisted_status |-> FALSE]

get_batch_status(b) ==
    /\ response' = BatchStatus(b)
    /\ UNCHANGED <<batch_executions, pc, worker_vars, cleanup, db_config,
                   execution_history, execution_status, calls>>

(***************************************************************************)
(* The system.                                                             *)
(***************************************************************************)
\* The steps of the worker thread of execution e.
Worker(e) ==
    \/ SetInitializing(e) \/ PersistStart(e) \/ GetBatch(e)
    \/ BatchNotFoundComplete(e) \/ BatchNotFoundSuccess(e)
    \/ BatchNotFoundError(e)
    \/ DeleteOldHistory(e) \/ GetPrompt(e)
    \/ NoPromptComplete(e) \/ NoPromptSuccess(e) \/ NoPromptError(e)
    \/ SetLoading(e) \/ QueryDataset(e) \/ SetTotal(e) \/ SetProcessing(e)
    \/ PersistTotal(e) \/ ConfigureClient(e)
    \/ ProcessRecord(e) \/ UpdateCurrent(e) \/ UpdateSuccessCount(e)
    \/ UpdateErrorCount(e) \/ UpdateStatus(e) \/ PersistProgress(e)
    \/ SetGeneratingCsv(e) \/ GenerateCsv(e) \/ SetSavingHistory(e)
    \/ SaveHistory(e) \/ SetUploading(e) \/ Upload(e)
    \/ MarkComplete(e) \/ MarkSuccess(e) \/ AttachCsv(e) \/ AttachFilename(e)
    \/ SetStatusComplete(e) \/ PersistComplete(e) \/ StartCleanup(e)
    \/ FailComplete(e) \/ FailSuccess(e) \/ FailError(e) \/ PersistFailed(e)
    \/ StartCleanupFailed(e)

Next ==
    \/ \E e \in ExecIds : execute_batch(e)
    \/ \E e \in ExecIds : Worker(e)
    \/ \E e \in ExecIds : cleanup_execution(e)
    \/ \E e \in ExecIds : get_batch_progress(e)
    \/ \E e \in ExecIds : download_batch_csv(e)
    \/ \E b \in BatchIds : download_history_csv(b)
    \/ \E b \in BatchIds : get_batch_status(b)

Spec == Init /\ [][Next]_vars

\* The interpreter schedules every started thread again and again, and every
\* call to the database, the dataset client and the LLM client returns or
\* raises: a worker or cleanup thread that can take a step eventually does.
Fairness ==
    \A e \in ExecIds : WF_vars(Worker(e)) /\ WF_vars(cleanup_execution(e))

LiveSpec == Spec /\ Fairness


(***************************************************************************)
(* Text.  A Python str is the sequence of its characters, each a string of *)
(* length one.  The characters of the model are the structural characters  *)
(* of JSON, the digits, two whitespace characters and a few letters.  The  *)
(* texts that are parsed as JSON do not spell a literal (true, false,      *)
(* null, NaN, Infinity), an array, a sign, a fraction, an exponent or an   *)
(* escape sequence.                                                        *)
(***************************************************************************)
Quote == "\""

Whitespace == {" ", "\n"}

DigitChars == <<"0", "1", "2", "3", "4", "5", "6", "7", "8", "9">>

Digits == {DigitChars[i] : i \in 1..10}

\* The character at index i (from 1), or "" past the end of the text.
At(s, i) == IF i \in 1..Len(s) THEN s[i] ELSE ""

RECURSIVE lstrip(_)
lstrip(s) ==
    IF s # <<>> /\ Head(s) \in Whitespace THEN lstrip(Tail(s)) ELSE s

RECURSIVE rstrip(_)
rstrip(s) ==
    IF s # <<>> /\ s[Len(s)] \in Whitespace
    THEN rstrip(SubSeq(s, 1, Len(s) - 1))
    ELSE s

\* Mutant of strip: only the leading whitespace is removed.
strip_LeftOnly(s) == lstrip(s)

\* str.strip()
strip(s) == rstrip(lstrip(s))

\* str(n) of a natural number.
RECURSIVE Decimal(_)
Decimal(n) ==
    IF n < 10 THEN <<DigitChars[n + 1]>>
    ELSE Decimal(n \div 10) \o <<DigitChars[(n % 10) + 1]>>

(***************************************************************************)
(* JSON values: numbers, strings, objects and lists of numbers.  An object *)
(* is the sequence of its members in insertion order, as a Python dict     *)
(* keeps them.                                                             *)
(***************************************************************************)
JNum(n) ==
    [kind |-> "num", n |-> n, chars |-> <<>>, items |-> <<>>, elems |-> <<>>]

JStr(cs) ==
    [kind |-> "str", n |-> 0, chars |-> cs, items |-> <<>>, elems |-> <<>>]

JObj(items) ==
    [kind |-> "obj", n |-> 0, chars |-> <<>>, items |-> items,
     elems |-> <<>>]

JList(elems) ==
    [kind |-> "list", n |-> 0, chars |-> <<>>, items |-> <<>>,
     elems |-> elems]

\* d[k] = v on the members of an object: a key that is present keeps its
\* place and takes the new value.
SetItem(items, k, v) ==
    IF \E i \in 1..Len(items) : items[i].key = k
    THEN [i \in 1..Len(items) |->
             IF items[i].key = k THEN [key |-> k, value |-> v] ELSE items[i]]
    ELSE Append(items, [key |-> k, value |-> v])

\* json.dumps with the given separators.
RECURSIVE SerializeElems(_, _)
SerializeElems(elems, item_sep) ==
    IF elems = <<>> THEN <<>>
    ELSE Decimal(Head(elems))
         \o (IF Len(elems) > 1 THEN item_sep ELSE <<>>)
         \o SerializeElems(Tail(elems), item_sep)

RECURSIVE Serialize(_, _, _)
RECURSIVE SerializeItems(_, _, _)
Serialize(v, item_sep, key_sep) ==
    CASE v.kind = "num" -> Decimal(v.n)
      [] v.kind = "str" -> <<Quote>> \o v.chars \o <<Quote>>
      [] v.kind = "list" ->
            <<"[">> \o SerializeElems(v.elems, item_sep) \o <<"]">>
      [] v.kind = "obj" ->
            <<"{">> \o SerializeItems(v.items, item_sep, key_sep) \o <<"}">>

SerializeItems(items, item_sep, key_sep) ==
    IF items = <<>> THEN <<>>
    ELSE <<Quote>> \o Head(items).key \o <<Quote>> \o key_sep
         \o Serialize(Head(items).value, item_sep, key_sep)
         \o (IF Len(items) > 1 THEN item_sep ELSE <<>>)
         \o SerializeItems(Tail(items), item_sep, key_sep)

\* json.dumps(v): the separators are ', ' and ': '.
json_dumps(v) == Serialize(v, <<",", " ">>, <<":", " ">>)

(***************************************************************************)
(* json.loads: a value, with whitespace allowed around it and between the  *)
(* tokens of an object, and nothing after it.                              *)
(***************************************************************************)
ParseError == [ok |-> FALSE, value |-> JNum(0), next |-> 0]

Parsed(v, next) == [ok |-> TRUE, value |-> v, next |-> next]

RECURSIVE SkipWhitespace(_, _)
SkipWhitespace(s, i) ==
    IF At(s, i) \in Whitespace THEN SkipWhitespace(s, i + 1) ELSE i

\* The index of the quote that closes a string whose content starts at i,
\* or 0: unterminated, or a control character in the string.
RECURSIVE StringEnd(_, _)
StringEnd(s, i) ==
    IF i > Len(s) \/ s[i] = "\n" THEN 0
    ELSE IF s[i] = Quote THEN i
    ELSE StringEnd(s, i + 1)

ParseString(s, i) ==
    IF At(s, i) # Quote THEN ParseError
    ELSE LET j == StringEnd(s, i + 1) IN
         IF j = 0 THEN ParseError
         ELSE Parsed(JStr(SubSeq(s, i + 1, j - 1)), j + 1)

RECURSIVE NumberEnd(_, _)
NumberEnd(s, i) == IF At(s, i) \in Digits THEN NumberEnd(s, i + 1) ELSE i

DigitValue(c) == (CHOOSE d \in 1..10 : DigitChars[d] = c) - 1

RECURSIVE DecimalValue(_)
DecimalValue(cs) ==
    IF cs = <<>> THEN 0
    ELSE 10 * DecimalValue(SubSeq(cs, 1, Len(cs) - 1))
         + DigitValue(cs[Len(cs)])

\* An integer: 0, or a digit other than 0 followed by digits.
ParseNumber(s, i) ==
    IF At(s, i) = "0" THEN Parsed(JNum(0), i + 1)
    ELSE LET j == NumberEnd(s, i) IN
         Parsed(JNum(DecimalValue(SubSeq(s, i, j - 1))), j)

RECURSIVE ParseValue(_, _)
RECURSIVE ParseMembers(_, _, _)
ParseValue(s, i) ==
    LET c == At(s, i) IN
    IF c = "{"
    THEN LET j == SkipWhitespace(s, i + 1) IN
         IF At(s, j) = "}" THEN Parsed(JObj(<<>>), j + 1)
         ELSE ParseMembers(s, j, <<>>)
    ELSE IF c = Quote THEN ParseString(s, i)
    ELSE IF c \in Digits THEN ParseNumber(s, i)
    ELSE ParseError

\* The members of an object from the key at i on; items are those read so
\* far.  A key that repeats overwrites the earlier value.
ParseMembers(s, i, items) ==
    LET k == ParseString(s, i) IN
    IF ~k.ok THEN ParseError
    ELSE LET colon == SkipWhitespace(s, k.next) IN
    IF At(s, colon) # ":" THEN ParseError
    ELSE LET v == ParseValue(s, SkipWhitespace(s, colon + 1)) IN
    IF ~v.ok THEN ParseError
    ELSE LET new == SetItem(items, k.value.chars, v.value)
             m   == SkipWhitespace(s, v.next)
         IN  IF At(s, m) = "," 
             THEN ParseMembers(s, SkipWhitespace(s, m + 1), new)
             ELSE IF At(s, m) = "}" THEN Parsed(JObj(new), m + 1)
             ELSE ParseError

\* json.loads(s); ok is FALSE where it raises json.JSONDecodeError.
json_loads(s) ==
    LET v == ParseValue(s, SkipWhitespace(s, 1)) IN
    IF v.ok /\ SkipWhitespace(s, v.next) = Len(s) + 1
    THEN [ok |-> TRUE, value |-> v.value]
    ELSE [ok |-> FALSE, value |-> JNum(0)]


(***************************************************************************)
(* utils/json_utils.py: extract_json_from_llm_response.                    *)
(***************************************************************************)
\* The keys of a JSON schema that are dropped from the top level of a parsed
\* response (lines 42-43): $schema, type, properties, required, title,
\* description, definitions, additionalProperties, $id, $ref, items.
schema_fields ==
    {<<"$", "s", "c", "h", "e", "m", "a">>,
     <<"t", "y", "p", "e">>,
     <<"p", "r", "o", "p", "e", "r", "t", "i", "e", "s">>,
     <<"r", "e", "q", "u", "i", "r", "e", "d">>,
     <<"t", "i", "t", "l", "e">>,
     <<"d", "e", "s", "c", "r", "i", "p", "t", "i", "o", "n">>,
     <<"d", "e", "f", "i", "n", "i", "t", "i", "o", "n", "s">>,
     <<"a", "d", "d", "i", "t", "i", "o", "n", "a", "l",
       "P", "r", "o", "p", "e", "r", "t", "i", "e", "s">>,
     <<"$", "i", "d">>,
     <<"$", "r", "e", "f">>,
     <<"i", "t", "e", "m", "s">>}

\* Mutant of rfind: the first occurrence is taken instead of the last.
rfind_First(s, c) ==
    IF \E i \in 1..Len(s) : s[i] = c
    THEN CHOOSE i \in 1..Len(s) :
             s[i] = c /\ \A j \in 1..(i - 1) : s[j] # c
    ELSE 0

\* s.rfind(c): the index of the last occurrence of c, counted from 1; 0 where
\* Python returns -1.
rfind(s, c) ==
    IF \E i \in 1..Len(s) : s[i] = c
    THEN CHOOSE i \in 1..Len(s) :
             s[i] = c /\ \A j \in (i + 1)..Len(s) : s[j] # c
    ELSE 0

\* Mutant of RemoveSchemaFields: the keys are dropped at every level.
RECURSIVE RemoveSchemaFields_AllLevels(_)
RemoveSchemaFields_AllLevels(parsed) ==
    LET Keep(m) == m.key \notin schema_fields
        kept    == SelectSeq(parsed.items, Keep)
    IN  JObj([i \in 1..Len(kept) |->
                 IF kept[i].value.kind = "obj"
                 THEN [key   |-> kept[i].key,
                       value |-> RemoveSchemaFields_AllLevels(kept[i].value)]
                 ELSE kept[i]])

\* Line 44: {k: v for k, v in parsed.items() if k not in schema_fields}
RemoveSchemaFields(parsed) ==
    LET Keep(m) == m.key \notin schema_fields IN
    JObj(SelectSeq(parsed.items, Keep))

\* The loop of lines 29-48 at index i with the depth counted so far, and the
\* return of line 51 when the loop runs out.
RECURSIVE ScanBack(_, _, _, _)
ScanBack(text, last_brace, i, brace_count) ==
    IF i < 1 THEN strip(text)
    ELSE IF text[i] = "}"
    THEN ScanBack(text, last_brace, i - 1, brace_count + 1)
    ELSE IF text[i] = "{"
    THEN IF brace_count - 1 = 0
         THEN LET json_str == SubSeq(text, i, last_brace)
                  parsed   == json_loads(json_str)
              IN  IF parsed.ok
                  THEN json_dumps(RemoveSchemaFields(parsed.value))
                  ELSE json_str
         ELSE ScanBack(text, last_brace, i - 1, brace_count - 1)
    ELSE ScanBack(text, last_brace, i - 1, brace_count)

extract_json_from_llm_response(text) ==
    LET last_brace == rfind(text, "}") IN
    IF last_brace = 0 THEN strip(text)
    ELSE ScanBack(text, last_brace, last_brace, 0)

(***************************************************************************)
(* The helper functions on their own.  A specification of this part gives  *)
(* one helper every argument of a bounded set and lets it return; the      *)
(* pipeline is not running meanwhile.                                      *)
(***************************************************************************)
pipeline_vars == <<batch_executions, pc, worker_vars, cleanup, batches,
                   prompts, prior_history, execution_history,
                   execution_status, calls, response>>

\* The application has started on empty tables and no request has arrived.
NoExecutions ==
    /\ batch_executions = EmptyDict
    /\ pc = [e \in ExecIds |-> "idle"]
    /\ all_records = [e \in ExecIds |-> <<>>]
    /\ idx = [e \in ExecIds |-> 0]
    /\ results = [e \in ExecIds |-> <<>>]
    /\ success_count = [e \in ExecIds |-> 0]
    /\ error_count = [e \in ExecIds |-> 0]
    /\ csv_data = [e \in ExecIds |-> Unassigned]
    /\ exc = [e \in ExecIds |-> None]
    /\ cleanup = [e \in ExecIds |-> "none"]
    /\ batches = {}
    /\ prompts = {}
    /\ execution_history = EmptyDict
    /\ execution_status = EmptyDict
    /\ calls = [e \in ExecIds |->
                  [dataset |-> 0, llm |-> 0, upload |-> 0,
                   upload_raised |-> FALSE, history_saved |-> FALSE]]
    /\ response = [route |-> "none"]
    /\ prior_history = [e \in ExecIds |-> EmptyDict]

(***************************************************************************)
(* Arguments of extract_json_from_llm_response.                            *)
(***************************************************************************)
\* Largest number of members of a generated object.
MaxMembers == 2

\* Largest length of a text made of arbitrary characters.
MaxText == 4

TypeKey == <<"t", "y", "p", "e">>

Keys == {<<"a">>, <<"b">>, TypeKey}

Values ==
    {JNum(10), JStr(<<"x">>), JStr(<<"}">>), JStr(<<"{">>),
     JObj(<<>>),
     JObj(<<[key |-> <<"a">>, value |-> JNum(1)]>>),
     JObj(<<[key |-> TypeKey, value |-> JStr(<<"x">>)]>>)}

\* The objects of up to MaxMembers members with distinct keys.
Objects ==
    {JObj(items) :
        items \in {m \in UNION {[1..n -> [key : Keys, value : Values]] :
                                   n \in 0..MaxMembers} :
                      \A i, j \in 1..Len(m) : i # j => m[i].key # m[j].key}}

\* What a model writes before its answer: nothing, prose, prose with
\* unbalanced or balanced braces, an earlier JSON object.
Prefixes ==
    {<<>>, <<"x", " ">>, <<"{", " ">>, <<"}", " ">>, <<"{", "x", "}", " ">>,
     json_dumps(JObj(<<[key |-> <<"b">>, value |-> JNum(10)]>>)) \o <<"\n">>}

\* What a model writes after its answer, without braces.
Suffixes == {<<>>, <<"\n">>, <<" ", "x">>}

\* The ways the answer object is written: json.dumps with its default
\* separators and with separators=(',', ':').
Separators ==
    {[item_sep |-> <<",", " ">>, key_sep |-> <<":", " ">>],
     [item_sep |-> <<",">>, key_sep |-> <<":">>]}

RawChars == {"{", "}", "x", " "}

RawTexts == UNION {[1..n -> RawChars] : n \in 0..MaxText}

ExtractCall(shape, prefix, obj, suffix, text) ==
    [fn |-> "extract", shape |-> shape, prefix |-> prefix, obj |-> obj,
     suffix |-> suffix, text |-> text, state |-> "called", result |-> <<>>]

ExtractCalls ==
    {ExtractCall("object", prefix, obj, suffix,
                 prefix \o Serialize(obj, sep.item_sep, sep.key_sep)
                        \o suffix) :
        prefix \in Prefixes, obj \in Objects, suffix \in Suffixes,
        sep \in Separators}
    \cup {ExtractCall("raw", <<>>, JObj(<<>>), <<>>, text) :
             text \in RawTexts}

InitExtract == NoExecutions /\ call \in ExtractCalls

ReturnExtract ==
    /\ call.fn = "extract"
    /\ call.state = "called"
    /\ call' = [call EXCEPT !.state = "returned",
                            !.result =
                                extract_json_from_llm_response(call.text)]
    /\ UNCHANGED pipeline_vars

NextExtract == ReturnExtract

SpecExtract == InitExtract /\ [][NextExtract]_vars


(***************************************************************************)
(* prompt_engine.py: PromptEngine.                                         *)
(***************************************************************************)
\* None as a value of a record field.
PyNone ==
    [kind |-> "none", n |-> 0, chars |-> <<>>, items |-> <<>>, elems |-> <<>>]

\* str(value) of a string or of a natural number.
Str(value) == IF value.kind = "str" THEN value.chars ELSE Decimal(value.n)

\* variable_pattern, r'\{\{([^}]+)\}\}', matched at index p of the text: the
\* index of the first '}' of the closing pair, or 0 if there is no match at
\* p.  The group is what lies between p + 2 and that index; it is not empty
\* and holds no '}'.
MatchAt(t, p) ==
    IF At(t, p) = "{" /\ At(t, p + 1) = "{"
    THEN LET closing == {q \in (p + 2)..Len(t) : t[q] = "}"} IN
         IF closing = {} THEN 0
         ELSE LET q == CHOOSE x \in closing : \A y \in closing : x <= y IN
              IF q > p + 2 /\ At(t, q + 1) = "}" THEN q ELSE 0
    ELSE 0

NotProvided(field_name) ==
    <<"[">> \o field_name
    \o <<":", " ", "n", "o", "t", " ", "p", "r", "o", "v", "i", "d", "e", "d",
         "]">>

\* Mutant of replace_variable: line 32 reads `if not value`.
replace_variable_Falsy(group, record) ==
    LET field_name == strip(group)
        value      == Get(record, field_name, PyNone)
    IN  IF value = PyNone \/ value = JStr(<<>>) \/ value = JNum(0)
        THEN NotProvided(field_name)
        ELSE Str(value)

\* replace_variable (lines 25-36) for a match whose group is `group`.
replace_variable(group, record) ==
    LET field_name == strip(group)
        value      == Get(record, field_name, PyNone)
    IN  IF value = PyNone \/ value = JStr(<<>>)
        THEN NotProvided(field_name)
        ELSE Str(value)

\* variable_pattern.sub(replace_variable, template) from index p on: the
\* matches are taken from left to right and do not overlap, and what was
\* substituted is not scanned again.
RECURSIVE Sub(_, _, _)
Sub(template, p, record) ==
    IF p > Len(template) THEN <<>>
    ELSE LET q == MatchAt(template, p) IN
         IF q = 0
         THEN <<template[p]>> \o Sub(template, p + 1, record)
         ELSE replace_variable(SubSeq(template, p + 2, q - 1), record)
              \o Sub(template, q + 2, record)

build_prompt(template, record) == Sub(template, 1, record)

\* variable_pattern.findall(template) from index p on: the groups of the
\* matches, from left to right.
RECURSIVE FindAll(_, _)
FindAll(template, p) ==
    IF p > Len(template) THEN <<>>
    ELSE LET q == MatchAt(template, p) IN
         IF q = 0 THEN FindAll(template, p + 1)
         ELSE <<SubSeq(template, p + 2, q - 1)>> \o FindAll(template, q + 2)

\* Line 54: [match.strip() for match in matches]
extract_variables(template) ==
    LET matches == FindAll(template, 1) IN
    [i \in 1..Len(matches) |-> strip(matches[i])]

(***************************************************************************)
(* Arguments of the prompt engine: a template is a sequence of parts, each *)
(* literal text without an opening brace or a placeholder, whose name may  *)
(* be padded with spaces inside the braces.                                *)
(***************************************************************************)
\* Largest number of parts of a template.
MaxParts == 3

Names == {<<"a">>, <<"b">>}

Literal(chars) == [kind |-> "lit", chars |-> chars, pad |-> <<>>]

Placeholder(name, pad) == [kind |-> "var", chars |-> name, pad |-> pad]

Parts ==
    {Literal(<<"x">>), Literal(<<"}", " ">>)}
    \cup {Placeholder(name, pad) : name \in Names, pad \in {<<>>, <<" ">>}}

PartText(part) ==
    IF part.kind = "lit" THEN part.chars
    ELSE <<"{", "{">> \o part.pad \o part.chars \o part.pad \o <<"}", "}">>

RECURSIVE TemplateText(_)
TemplateText(parts) ==
    IF parts = <<>> THEN <<>>
    ELSE PartText(Head(parts)) \o TemplateText(Tail(parts))

Templates == UNION {[1..n -> Parts] : n \in 0..MaxParts}

\* A record field is missing, None, the empty string, a string or the number
\* zero.
FieldValues == {PyNone, JStr(<<>>), JStr(<<"v">>), JNum(0)}

Records == UNION {[fields -> FieldValues] : fields \in SUBSET Names}

PromptCall(fn, parts, record) ==
    [fn |-> fn, parts |-> parts, template |-> TemplateText(parts),
     record |-> record, state |-> "called", result |-> <<>>]

InitPrompt ==
    /\ NoExecutions
    /\ call \in {PromptCall("build_prompt", parts, record) :
                    parts \in Templates, record \in Records}
                \cup {PromptCall("extract_variables", parts, EmptyDict) :
                         parts \in Templates}

ReturnBuildPrompt ==
    /\ call.fn = "build_prompt"
    /\ call.state = "called"
    /\ call' = [call EXCEPT !.state = "returned",
                            !.result = build_prompt(call.template,
                                                    call.record)]
    /\ UNCHANGED pipeline_vars

ReturnExtractVariables ==
    /\ call.fn = "extract_variables"
    /\ call.state = "called"
    /\ call' = [call EXCEPT !.state = "returned",
                            !.result = extract_variables(call.template)]
    /\ UNCHANGED pipeline_vars

NextPrompt == ReturnBuildPrompt \/ ReturnExtractVariables

SpecPrompt == InitPrompt /\ [][NextPrompt]_vars


(***************************************************************************)
(* utils/json_utils.py: flatten_nested_dict.                               *)
(***************************************************************************)
\* dict(items): a key that repeats keeps its first place and takes the last
\* value.
RECURSIVE DictOf(_)
DictOf(pairs) ==
    IF pairs = <<>> THEN <<>>
    ELSE LET last == pairs[Len(pairs)] IN
         SetItem(DictOf(SubSeq(pairs, 1, Len(pairs) - 1)),
                 last.key, last.value)

\* d.get(k, default) on the members of a dict.
DictGet(d, k, default) ==
    IF \E i \in 1..Len(d) : d[i].key = k
    THEN d[CHOOSE i \in 1..Len(d) : d[i].key = k].value
    ELSE default

\* flatten_nested_dict(obj, parent_key) with sep='.', and the pairs its loop
\* over obj.items() collects (lines 69-80).
RECURSIVE flatten_nested_dict(_, _)
RECURSIVE FlattenItems(_, _)
flatten_nested_dict(obj, parent_key) ==
    IF obj.kind = "obj"
    THEN DictOf(FlattenItems(obj.items, parent_key))
    ELSE <<[key |-> parent_key, value |-> obj]>>

FlattenItems(items, parent_key) ==
    IF items = <<>> THEN <<>>
    ELSE LET key     == Head(items).key
             value   == Head(items).value
             new_key == IF parent_key # <<>>
                        THEN parent_key \o <<".">> \o key
                        ELSE key
         IN  (IF value.kind = "obj"
              THEN flatten_nested_dict(value, new_key)
              ELSE IF value.kind = "list"
              THEN <<[key |-> new_key, value |-> JStr(json_dumps(value))]>>
              ELSE <<[key |-> new_key, value |-> value]>>)
             \o FlattenItems(Tail(items), parent_key)

(***************************************************************************)
(* utils/csv_utils.py: generate_structured_csv, as the text it returns.    *)
(***************************************************************************)
\* The characters that occur in field names, in the order of their code
\* points: Python compares strings code point by code point.
CodePointOrder ==
    <<"$", ".", "0", "1", "2", "3", "4", "5", "6", "7", "8", "9", "B", "P",
      "_", "a", "b", "c", "d", "e", "f", "g", "h", "i", "j", "k", "l", "m",
      "n", "o", "p", "q", "r", "s", "t", "u", "v", "w", "x", "y", "z">>

ord(c) == CHOOSE i \in 1..Len(CodePointOrder) : CodePointOrder[i] = c

\* a < b on Python strings.
RECURSIVE StrLess(_, _)
StrLess(a, b) ==
    IF b = <<>> THEN FALSE
    ELSE IF a = <<>> THEN TRUE
    ELSE IF Head(a) = Head(b) THEN StrLess(Tail(a), Tail(b))
    ELSE ord(Head(a)) < ord(Head(b))

\* sorted(S) of a set of strings.
RECURSIVE sorted(_)
sorted(S) ==
    IF S = {} THEN <<>>
    ELSE LET least == CHOOSE x \in S : \A y \in S \ {x} : StrLess(x, y) IN
         <<least>> \o sorted(S \ {least})

raw_response == <<"r", "a", "w", "_", "r", "e", "s", "p", "o", "n", "s", "e">>

\* str(value) of what a cell or a raw response can hold.
CellStr(value) ==
    CASE value.kind = "none" -> <<"N", "o", "n", "e">>
      [] value.kind = "list" -> json_dumps(value)
      [] OTHER -> Str(value)

\* Lines 37-47: the flattened response of a result.
flattened_response(result) ==
    IF result.response.kind = "obj"
    THEN flatten_nested_dict(result.response, <<>>)
    ELSE <<[key |-> raw_response,
            value |-> JStr(CellStr(result.response))]>>

\* Lines 32-47: the field names collected from all results.
all_fields(rs) ==
    UNION {{flattened_response(rs[i])[k].key :
               k \in 1..Len(flattened_response(rs[i]))} \ schema_fields :
           i \in 1..Len(rs)}

\* Mutant of sorted_fields: the fields stay in the order they were first
\* seen in.
RECURSIVE FirstSeenFields(_, _)
FirstSeenFields(pairs, seen) ==
    IF pairs = <<>> THEN <<>>
    ELSE IF Head(pairs).key \in seen \cup schema_fields
    THEN FirstSeenFields(Tail(pairs), seen)
    ELSE <<Head(pairs).key>>
         \o FirstSeenFields(Tail(pairs), seen \cup {Head(pairs).key})

RECURSIVE AllPairs(_)
AllPairs(rs) ==
    IF rs = <<>> THEN <<>>
    ELSE flattened_response(Head(rs)) \o AllPairs(Tail(rs))

sorted_fields_FirstSeen(rs) == FirstSeenFields(AllPairs(rs), {})

\* Line 55: sorted(all_fields)
sorted_fields(rs) == sorted(all_fields(rs))

\* Lines 58-59: the header row.
Header(rs, record_id_field) ==
    <<IF record_id_field # <<>> THEN record_id_field
      ELSE <<"R", "e", "c", "o", "r", "d", " ", "I", "D">>>>
    \o sorted_fields(rs)

\* Mutant of Row: a row holds a cell only for the fields its own response
\* has.
Row_OwnFields(result, fields) ==
    LET own(f) == \E k \in 1..Len(flattened_response(result)) :
                      flattened_response(result)[k].key = f
        mine   == SelectSeq(fields, own)
    IN  <<result.record_id>>
        \o [j \in 1..Len(mine) |->
               LET value == DictGet(flattened_response(result), mine[j],
                                    JStr(<<>>))
               IN  IF value = PyNone THEN <<>> ELSE CellStr(value)]

\* Lines 64-79: the data row of a result.
Row(result, fields) ==
    <<result.record_id>>
    \o [j \in 1..Len(fields) |->
           LET value == DictGet(flattened_response(result), fields[j],
                                JStr(<<>>))
           IN  IF value = PyNone THEN <<>> ELSE CellStr(value)]

\* csv.writer with the default dialect: a field that holds the delimiter,
\* the quote character or a character of the line terminator is quoted and
\* its quotes are doubled; a row of one empty field is written as "".
RECURSIVE DoubleQuotes(_)
DoubleQuotes(field) ==
    IF field = <<>> THEN <<>>
    ELSE (IF Head(field) = Quote THEN <<Quote, Quote>> ELSE <<Head(field)>>)
         \o DoubleQuotes(Tail(field))

WriteField(field) ==
    IF \E i \in 1..Len(field) : field[i] \in {",", Quote, "\r", "\n"}
    THEN <<Quote>> \o DoubleQuotes(field) \o <<Quote>>
    ELSE field

RECURSIVE JoinFields(_)
JoinFields(row) ==
    IF Len(row) = 1 THEN WriteField(row[1])
    ELSE WriteField(Head(row)) \o <<",">> \o JoinFields(Tail(row))

writerow(row) ==
    (IF row = <<<<>>>> THEN <<Quote, Quote>> ELSE JoinFields(row))
    \o <<"\r", "\n">>

RECURSIVE WriteRows(_, _)
WriteRows(rs, fields) ==
    IF rs = <<>> THEN <<>>
    ELSE writerow(Row(Head(rs), fields))
         \o WriteRows(Tail(rs), fields)

\* generate_structured_csv(results, record_id_field=...): output.getvalue().
structured_csv_text(rs, record_id_field) ==
    writerow(Header(rs, record_id_field))
    \o WriteRows(rs, sorted_fields(rs))

(***************************************************************************)
(* Arguments of generate_structured_csv.                                   *)
(***************************************************************************)
\* Largest number of results of a run.
MaxResults == 2

Member(key, value) == [key |-> key, value |-> value]

\* What the row loop stores as a response: parsed objects that are empty,
\* flat, nested, with None, with a list, with schema metadata, with a dotted
\* key, and a response that is not an object.
Responses ==
    {JObj(<<>>),
     JObj(<<Member(<<"b">>, JNum(1))>>),
     JObj(<<Member(<<"b">>, PyNone), Member(<<"B">>, JList(<<1, 2>>))>>),
     JObj(<<Member(TypeKey, JStr(<<"x">>)),
            Member(<<"a">>, JObj(<<Member(<<"b">>,
                                          JStr(<<"x", ",", Quote>>))>>))>>),
     JObj(<<Member(<<"i", "t", "e", "m", "s">>,
                   JObj(<<Member(<<"a">>, JNum(0))>>)),
            Member(<<"a">>, JObj(<<>>))>>),
     JObj(<<Member(<<"a", "b">>, JStr(<<>>))>>),
     JStr(<<"n", "o", "\n">>)}

RecordIds == {<<"r", "1">>, <<"r", ",", "2">>}

Results == [record_id : RecordIds, response : Responses]

CsvCall(rs, record_id_field) ==
    [fn |-> "generate_structured_csv", results |-> rs,
     record_id_field |-> record_id_field, state |-> "called",
     result |-> <<>>]

InitCsv ==
    /\ NoExecutions
    /\ call \in {CsvCall(rs, record_id_field) :
                    rs \in UNION {[1..n -> Results] : n \in 0..MaxResults},
                    record_id_field \in {<<"N", "a", "m", "e">>, <<>>}}

ReturnCsv ==
    /\ call.fn = "generate_structured_csv"
    /\ call.state = "called"
    /\ call' = [call EXCEPT !.state = "returned",
                            !.result =
                                structured_csv_text(call.results,
                                                    call.record_id_field)]
    /\ UNCHANGED pipeline_vars

NextCsv == ReturnCsv

SpecCsv == InitCsv /\ [][NextCsv]_vars


(***************************************************************************)
(* services/batch_execution_service.py: the identifier of a result row     *)
(* (lines 229-234 and 268).  Field values are strings, written as          *)
(* sequences of characters; a key may be absent from a record.             *)
(***************************************************************************)
\* record.get(k) is truthy: the key is present and its value is not ''.
Truthy(record, k) == k \in DOMAIN record /\ record[k] # <<>>

\* record.get(k1) or record.get(k2) or ... or default
RECURSIVE FirstTruthy(_, _, _)
FirstTruthy(record, keys, default) ==
    IF keys = <<>> THEN default
    ELSE IF Truthy(record, Head(keys)) THEN record[Head(keys)]
    ELSE FirstTruthy(record, Tail(keys), default)

\* f'Record_{idx}'
SynthesizedId(i) == <<"R", "e", "c", "o", "r", "d", "_">> \o Decimal(i)

\* Lines 229-234: the identifier resolved at the top of the try body; idx is
\* the zero-based index of enumerate.
record_id(record_id_field, record, i) ==
    IF record_id_field # None
    THEN FirstTruthy(record, <<record_id_field>>, SynthesizedId(i))
    ELSE FirstTruthy(record, <<"Id", "id", "Name", "name">>, SynthesizedId(i))

\* Line 268: the identifier the handler of line 264 stores with an error.
error_record_id(record, i) ==
    FirstTruthy(record, <<"Id", "id">>, SynthesizedId(i))

\* The records of the argument set: every key is absent, empty or holds the
\* value below.
IdKeys == {"Id", "id", "Name", "name", "ClaimNumber"}

SampleValue ==
    [k \in IdKeys |->
        CASE k = "Id"   -> <<"A">>
          [] k = "id"   -> <<"B">>
          [] k = "Name" -> <<"C">>
          [] k = "name" -> <<"D">>
          [] OTHER      -> <<"E">>]

IdRecords ==
    UNION {{[k \in present |-> IF k \in empty THEN <<>> ELSE SampleValue[k]] :
               empty \in SUBSET present} :
           present \in SUBSET IdKeys}

RecordIdCall(record_id_field, record, i) ==
    [fn |-> "record_id", record_id_field |-> record_id_field,
     record |-> record, idx |-> i, state |-> "called", raised |-> FALSE,
     result |-> <<>>]

InitRecordId ==
    /\ NoExecutions
    /\ \E record_id_field \in {None, "ClaimNumber"}, record \in IdRecords,
          i \in 0..(MaxRecords - 1) :
          call = RecordIdCall(record_id_field, record, i)

\* The try body ran to line 258: the row carries the identifier of 229-234.
ReturnRecordId ==
    /\ call.fn = "record_id"
    /\ call.state = "called"
    /\ call' = [call EXCEPT !.state = "returned",
                            !.result = record_id(call.record_id_field,
                                                 call.record, call.idx)]
    /\ UNCHANGED pipeline_vars

\* The try body raised after line 234: the row carries the identifier of
\* line 268.
ReturnErrorRecordId ==
    /\ call.fn = "record_id"
    /\ call.state = "called"
    /\ call' = [call EXCEPT !.state = "returned", !.raised = TRUE,
                            !.result = error_record_id(call.record, call.idx)]
    /\ UNCHANGED pipeline_vars

NextRecordId == ReturnRecordId \/ ReturnErrorRecordId

SpecRecordId == InitRecordId /\ [][NextRecordId]_vars

(***************************************************************************)
(* services/batch_execution_service.py: the dataset query of a run (lines  *)
(* 151-210).  Field names are strings, lists are sequences.                *)
(***************************************************************************)
\* The elements of a list.
Elements(list) == {list[i] : i \in 1..Len(list)}

\* Line 162: the fields added to the query when the dataset has them.
CommonFields == <<"Name", "Title", "Id", "RecordId", "ClaimNumber">>

\* Lines 162-164: for field in [...]: if field in available_field_names and
\* field not in query_fields: query_fields.append(field)
RECURSIVE AppendCommon(_, _, _)
AppendCommon(fields, common, available_field_names) ==
    IF common = <<>> THEN fields
    ELSE AppendCommon(
             IF Head(common) \in available_field_names
                /\ Head(common) \notin Elements(fields)
             THEN Append(fields, Head(common))
             ELSE fields,
             Tail(common), available_field_names)

\* Mutant of AppendIdField: the identifier field is not forced into the
\* query.
AppendIdField_Skipped(fields, record_id_field) == fields

\* Lines 179-180: if record_id_field and record_id_field not in
\* query_fields: query_fields.append(record_id_field)
AppendIdField(fields, record_id_field) ==
    IF record_id_field # None /\ record_id_field \notin Elements(fields)
    THEN Append(fields, record_id_field)
    ELSE fields

\* Lines 160-180: the list of fields the query asks for.
query_fields(template_fields, available_field_names, record_id_field) ==
    LET in_dataset(f) == f \in available_field_names
    IN  AppendIdField(
            AppendCommon(SelectSeq(template_fields, in_dataset),
                         CommonFields, available_field_names),
            record_id_field)

\* filters=None
NoFilters == [field |-> None, values |-> <<>>]

\* Line 208: the row limit of a query that is not restricted to a list.
QueryLimit == 10000

\* Lines 194-201: the query for a caller-supplied list of identifiers.
filtered_query(fields, record_id_field, filtered_record_ids, saql_filter) ==
    [fields      |-> fields,
     limit       |-> Len(filtered_record_ids),
     filters     |-> IF record_id_field # None
                     THEN [field |-> record_id_field,
                           values |-> filtered_record_ids]
                     ELSE NoFilters,
     saql_filter |-> saql_filter]

\* Lines 205-210: the query over the whole dataset.
full_query(fields, saql_filter) ==
    [fields |-> fields, limit |-> QueryLimit, filters |-> NoFilters,
     saql_filter |-> saql_filter]

\* Arguments: the placeholder names of a template (extract_variables keeps
\* repeats), the fields of the dataset, the configured identifier field, the
\* list of the request (None and [] are both falsy) and the saved filter.
TemplateFieldLists ==
    UNION {[1..n -> {"Symptoms", "Name", "Missing"}] : n \in 0..2}

AvailableFieldSets == SUBSET {"Symptoms", "Name", "Id", "ClaimNumber"}

RecordIdLists == {<<>>, <<"A">>, <<"A", "B">>}

QueryCall(template_fields, available_field_names, record_id_field,
          record_ids, saql_filter) ==
    [fn |-> "query", template_fields |-> template_fields,
     available_field_names |-> available_field_names,
     record_id_field |-> record_id_field, record_ids |-> record_ids,
     saql_filter |-> saql_filter, state |-> "called",
     result |-> full_query(<<>>, "")]

InitQuery ==
    /\ NoExecutions
    /\ \E template_fields \in TemplateFieldLists,
          available_field_names \in AvailableFieldSets,
          record_id_field \in {None, "ClaimNumber", "Id"},
          record_ids \in RecordIdLists,
          saql_filter \in {"", "saved filter"} :
          call = QueryCall(template_fields, available_field_names,
                           record_id_field, record_ids, saql_filter)

\* Lines 191-201: if filtered_record_ids: ...
ReturnFilteredQuery ==
    /\ call.fn = "query"
    /\ call.state = "called"
    /\ call.record_ids # <<>>
    /\ call' = [call EXCEPT
                  !.state = "returned",
                  !.result = filtered_query(
                      query_fields(call.template_fields,
                                   call.available_field_names,
                                   call.record_id_field),
                      call.record_id_field, call.record_ids,
                      call.saql_filter)]
    /\ UNCHANGED pipeline_vars

\* Lines 202-210: else: ...
ReturnFullQuery ==
    /\ call.fn = "query"
    /\ call.state = "called"
    /\ call.record_ids = <<>>
    /\ call' = [call EXCEPT
                  !.state = "returned",
                  !.result = full_query(
                      query_fields(call.template_fields,
                                   call.available_field_names,
                                   call.record_id_field),
                      call.saql_filter)]
    /\ UNCHANGED pipeline_vars

NextQuery == ReturnFilteredQuery \/ ReturnFullQuery

SpecQuery == InitQuery /\ [][NextQuery]_vars

(***************************************************************************)
(* The generation settings of a run: the prompt configuration read at      *)
(* lines 139-147, the client configuration of lines 217-218 and            *)
(* lm_studio_client.py.  A temperature is written in tenths; a NULL column *)
(* is the empty sequence, a value v the sequence <<v>>.                    *)
(***************************************************************************)
\* column or default
OrDefault(column, default) ==
    IF column = <<>> \/ column = <<0>> THEN default ELSE column[1]

\* Lines 139-147: the generation parameters of the prompt_config dict.
prompt_config(prompt_row) ==
    [temperature |-> OrDefault(prompt_row.temperature, 7),
     max_tokens  |-> OrDefault(prompt_row.max_tokens, 4000),
     timeout     |-> OrDefault(prompt_row.timeout, 60)]

\* lm_studio_client.py, update_config: every key the dict has replaces the
\* attribute of the client; there is no timeout attribute.
update_config(client, config) ==
    [temperature |-> Get(config, "temperature", client.temperature),
     max_tokens  |-> Get(config, "max_tokens", client.max_tokens)]

\* lm_studio_client.py, _generate_lmstudio (lines 72-82): the payload takes
\* the attributes of the client, the request a fixed timeout.
generation_settings(client) ==
    [temperature |-> client.temperature,
     max_tokens  |-> client.max_tokens,
     timeout     |-> 60]

\* Arguments: the attributes of the shared client before the run, the dict
\* of the settings loader and the row of the prompts table.
Clients ==
    {[temperature |-> 7, max_tokens |-> 4000],
     [temperature |-> 5, max_tokens |-> 2000]}

GlobalValue == [temperature |-> 2, max_tokens |-> 1000, timeout |-> 30]

GlobalSettings ==
    {[k \in keys |-> GlobalValue[k]] :
        keys \in SUBSET {"temperature", "max_tokens", "timeout"}}

PromptRows ==
    [temperature : {<<>>, <<0>>, <<9>>},
     max_tokens  : {<<>>, <<500>>},
     timeout     : {<<>>, <<120>>}]

SettingsCall(client, global_settings, prompt_row) ==
    [fn |-> "settings", client |-> client,
     global_settings |-> global_settings, prompt_row |-> prompt_row,
     prompt_config |-> prompt_config([temperature |-> <<>>,
                                      max_tokens |-> <<>>,
                                      timeout |-> <<>>]),
     state |-> "called", result |-> generation_settings(client)]

InitSettings ==
    /\ NoExecutions
    /\ \E client \in Clients, global_settings \in GlobalSettings,
          prompt_row \in PromptRows :
          call = SettingsCall(client, global_settings, prompt_row)

\* Lines 139-147: prompt_config = {...}
ReadPromptConfig ==
    /\ call.fn = "settings"
    /\ call.state = "called"
    /\ call' = [call EXCEPT !.state = "configured",
                            !.prompt_config = prompt_config(call.prompt_row)]
    /\ UNCHANGED pipeline_vars

\* Lines 217-218 and the generate calls of line 246: the client is updated
\* with the global settings alone and every row is generated with it.
ReturnSettings ==
    /\ call.fn = "settings"
    /\ call.state = "configured"
    /\ call' = [call EXCEPT
                  !.state = "returned",
                  !.client = update_config(call.client, call.global_settings),
                  !.result = generation_settings(
                      update_config(call.client, call.global_settings))]
    /\ UNCHANGED pipeline_vars

NextSettings == ReadPromptConfig \/ ReturnSettings

SpecSettings == InitSettings /\ [][NextSettings]_vars

(***************************************************************************)
(* services/batch_execution_service.py: loading the batch and its dataset  *)
(* configuration (lines 95-122).  The result names the statement the       *)
(* worker goes on with: line 125, or the return of line 104.               *)
(***************************************************************************)
\* Lines 99-104: if not batch_row: ... return
batch_not_found ==
    [next |-> "return", complete |-> TRUE, success |-> FALSE,
     error |-> "Batch not found", record_id_field |-> None]

\* Lines 114-122: the identifier field of the batch's dataset configuration;
\* a batch without configuration, or one whose configuration row does not
\* exist, has none, and the run goes on.
load_record_id_field(dataset_config_id, dataset_configs) ==
    [next |-> "L125", complete |-> FALSE, success |-> FALSE, error |-> None,
     record_id_field |->
        IF dataset_config_id \notin {None, ""}
        THEN IF dataset_config_id \in DOMAIN dataset_configs
             THEN dataset_configs[dataset_config_id]
             ELSE None
        ELSE None]

\* Arguments: the batches row (absent, or with its dataset_config_id) and
\* the dataset_configs table (id -> record_id_field).
BatchRows == {<<>>} \cup {<<id>> : id \in {None, "", "cfg1", "cfg2"}}

DatasetConfigTables ==
    UNION {[ids -> {"ClaimNumber", "Id", "Name"}] :
              ids \in SUBSET {"cfg1", "cfg2"}}

LoadBatchCall(batch_row, dataset_configs) ==
    [fn |-> "load_batch", batch_row |-> batch_row,
     dataset_configs |-> dataset_configs, state |-> "called",
     result |-> batch_not_found]

InitLoadBatch ==
    /\ NoExecutions
    /\ \E batch_row \in BatchRows, dataset_configs \in DatasetConfigTables :
          call = LoadBatchCall(batch_row, dataset_configs)

\* Lines 95-104: no row of the batch.
ReturnBatchNotFound ==
    /\ call.fn = "load_batch"
    /\ call.state = "called"
    /\ call.batch_row = <<>>
    /\ call' = [call EXCEPT !.state = "returned", !.result = batch_not_found]
    /\ UNCHANGED pipeline_vars

\* Lines 95-98 and 106-122: the batch exists.
ReturnRecordIdField ==
    /\ call.fn = "load_batch"
    /\ call.state = "called"
    /\ call.batch_row # <<>>
    /\ call' = [call EXCEPT
                  !.state = "returned",
                  !.result = load_record_id_field(call.batch_row[1],
                                                  call.dataset_configs)]
    /\ UNCHANGED pipeline_vars

NextLoadBatch == ReturnBatchNotFound \/ ReturnRecordIdField

SpecLoadBatch == InitLoadBatch /\ [][NextLoadBatch]_vars

(***************************************************************************)
(* The row loop of a long run.  A specification of this part starts where  *)
(* the dataset query of a run has just returned (line 212), the mirror     *)
(* holding the row written at line 91, and follows the worker to its end   *)
(* for result lists long enough to reach the periodic write of line 281.   *)
(* The rows all parse, nothing raises and every mirror write succeeds.     *)
(***************************************************************************)
\* Largest number of rows of the query result of a long run.
LagRows == 11

\* The execution dict when line 212 is reached.
LoadedExecution(e, b) ==
    Put(NewExecution(e, b), "status",
        Status("Loading dataset records...", 0, 0))

InitLag ==
    /\ batch_executions = [e \in ExecIds |-> LoadedExecution(e, "b1")]
    /\ pc = [e \in ExecIds |-> "L212"]
    /\ \E n \in 0..LagRows :
          all_records = [e \in ExecIds |-> QueryResult(n)]
    /\ idx = [e \in ExecIds |-> 0]
    /\ results = [e \in ExecIds |-> <<>>]
    /\ success_count = [e \in ExecIds |-> 0]
    /\ error_count = [e \in ExecIds |-> 0]
    /\ csv_data = [e \in ExecIds |-> Unassigned]
    /\ exc = [e \in ExecIds |-> None]
    /\ cleanup = [e \in ExecIds |-> "none"]
    /\ batches = BatchIds
    /\ prompts = BatchIds
    /\ execution_history = EmptyDict
    /\ execution_status =
          [b \in BatchIds |->
              StatusRow("e1", Put(NewExecution("e1", b), "status",
                                  Status("Initializing...", 0, 0)))]
    /\ calls = [e \in ExecIds |->
                  [dataset |-> 1, llm |-> 0, upload |-> 0,
                   upload_raised |-> FALSE, history_saved |-> FALSE]]
    /\ response = [route |-> "execute-batch", code |-> 200, id |-> "e1"]
    /\ prior_history = [e \in ExecIds |-> EmptyDict]
    /\ call = NoCall

\* The step of the worker of e is one of a run in which every row parses,
\* nothing raises and every mirror write succeeds.
QuietStep(e) ==
    /\ exc' = exc
    /\ \A i \in 1..Len(results'[e]) : results'[e][i].response = "parsed"
    /\ (pc[e] \in {"L214", "L332"} \/ (pc[e] = "L280" /\ PersistDue(idx[e])))
          => execution_status' =
                Put(execution_status, BatchOf(e),
                    StatusRow(e, batch_executions[e]))

NextLag ==
    \/ \E e \in ExecIds : Worker(e) /\ QuietStep(e)
    \/ \E e \in ExecIds : cleanup_execution(e)

SpecLag == InitLag /\ [][NextLag]_vars

(***************************************************************************)
(* Vocabulary of the properties.                                           *)
(***************************************************************************)
\* The execution is in the in-memory dict.
Known(e) == e \in DOMAIN batch_executions

\* A poll of e shows complete=true.
Complete(e) == Known(e) /\ batch_executions[e]["complete"]

\* A poll of e shows complete=true and success=true.
Succeeded(e) ==
    /\ Complete(e)
    /\ "success" \in DOMAIN batch_executions[e]
    /\ batch_executions[e]["success"]

\* A poll of e shows complete=true and success=false.
Failed(e) ==
    /\ Complete(e)
    /\ "success" \in DOMAIN batch_executions[e]
    /\ ~batch_executions[e]["success"]

(***************************************************************************)
(* Properties.                                                             *)
(***************************************************************************)

\* C1: in every state of an execution's entry that a polling reader can
\* observe, complete=true implies (success=true and the CSV is attached) or
\* (success=false and an error message is set).
C1_TerminalStateConsistent ==
    \A e \in DOMAIN batch_executions :
        LET x == batch_executions[e] IN
        x["complete"] =>
            /\ "success" \in DOMAIN x
            /\ \/ x["success"] /\ "csv_data" \in DOMAIN x
               \/ ~x["success"] /\ "error" \in DOMAIN x

\* The second half of C1, which the code satisfies: complete is assigned True
\* only while it is False, and once True it stays True until eviction.
CompleteSetOnce ==
    [][\A e \in DOMAIN batch_executions :
         /\ pc[e] \in {"L100", "L134", "L327", "L349"} =>
               ~batch_executions[e]["complete"]
         /\ (batch_executions[e]["complete"] /\ e \in DOMAIN batch_executions') =>
               batch_executions'[e]["complete"]
         /\ (~batch_executions[e]["complete"] /\ Complete(e)') =>
               pc[e] \in {"L100", "L134", "L327", "L349"}]_vars

\* C2: every execution created by execute_batch eventually shows
\* complete=true, whatever raises during setup, the row loop, CSV generation
\* or the history save.
C2_EventuallyComplete ==
    \A e \in ExecIds : (pc[e] = "L90") ~> Complete(e)

\* C2 witness: an execution whose CSV generation raised, after two rows
\* were processed, shows complete=true.
C2_Witness ==
    \E e \in ExecIds :
        Complete(e) /\ exc[e] = "csv error" /\ Len(results[e]) = 2

\* C3: exactly one result row is appended per record, in query-result order,
\* whichever way the row ended; a run that reaches CSV generation has exactly
\* `total` result rows.
C3_OneRowPerRecord ==
    \A e \in ExecIds :
        LET rs == results[e]
            n  == Len(all_records[e])
        IN  /\ pc[e] = "L226" => Len(rs) = idx[e]
            /\ pc[e] \in {"L274", "L275", "L276", "L277", "L280"} =>
                  /\ Len(rs) = idx[e] + 1
                  /\ idx[e] < n
            /\ pc[e] = "L285" =>
                  /\ Len(rs) = n
                  /\ Len(rs) = batch_executions[e]["total"]
            /\ csv_data[e] # Unassigned => Len(csv_data[e].rows) = n
            /\ \A i \in 1..Len(rs) : rs[i].record_id = all_records[e][i].Id

\* C3 witness: CSV generation is reached after a row that raised was followed
\* by another row.
C3_Witness ==
    \E e \in ExecIds :
        /\ pc[e] = "L285"
        /\ Len(results[e]) = 2
        /\ results[e][1].response = "error"

\* C4: current starts at 0, advances by exactly 1 after each processed row,
\* never decreases and never exceeds total.
C4_CurrentAdvances ==
    [][\A e \in ExecIds :
         e \in DOMAIN batch_executions' =>
            LET new == batch_executions'[e] IN
            /\ new["current"] <= new["total"]
            /\ e \notin DOMAIN batch_executions => new["current"] = 0
            /\ e \in DOMAIN batch_executions =>
                  LET old == batch_executions[e] IN
                  \/ new["current"] = old["current"]
                  \/ /\ new["current"] = old["current"] + 1
                     /\ pc[e] = "L274"
                     /\ new["current"] = Len(results[e])
            /\ pc'[e] = "L226" => new["current"] = Len(results'[e])]_vars

\* C4 witness: the second row has been processed and counted.
C4_Witness ==
    \E e \in DOMAIN batch_executions :
        /\ batch_executions[e]["current"] = 2
        /\ batch_executions[e]["total"] = 2

\* C5: success_count + error_count <= current in every observable state,
\* also between the assignments of one progress update, and neither counter
\* ever decreases.
C5_CountsBoundedByCurrent ==
    [][\A e \in ExecIds :
         e \in DOMAIN batch_executions' =>
            LET new == batch_executions'[e] IN
            /\ Get(new, "success_count", 0) + Get(new, "error_count", 0)
                  <= new["current"]
            /\ e \in DOMAIN batch_executions =>
                  LET old == batch_executions[e] IN
                  /\ Get(new, "success_count", 0) >= Get(old, "success_count", 0)
                  /\ Get(new, "error_count", 0) >= Get(old, "error_count", 0)]_vars

\* C5 witness: between the assignments of the second row's update, current
\* is already 2 and the stored counters still add up to 1.
C5_Witness ==
    \E e \in DOMAIN batch_executions :
        LET x == batch_executions[e] IN
        /\ pc[e] = "L276"
        /\ x["current"] = 2
        /\ Get(x, "success_count", 0) + Get(x, "error_count", 0) = 1
        /\ success_count[e] + error_count[e] = 2

\* C6: if the batch does not exist or has no prompt configuration, the
\* execution ends complete, failed, with an error message, total=0 and
\* current=0, and neither the dataset nor the LLM is called.
C6_ConfigErrorFailsEarly ==
    \A e \in DOMAIN batch_executions :
        LET x == batch_executions[e]
            b == x["batch_id"]
        IN  (b \notin batches \/ b \notin prompts) =>
            /\ calls[e].dataset = 0
            /\ calls[e].llm = 0
            /\ x["total"] = 0
            /\ x["current"] = 0
            /\ pc[e] = "done" =>
                  /\ Failed(e)
                  /\ "error" \in DOMAIN x
                  /\ x["error"] =
                        IF exc[e] # None THEN exc[e]
                        ELSE IF b \notin batches THEN "Batch not found"
                        ELSE "No prompt configuration found"

\* C6 witness: a run of an existing batch without prompt configuration ended.
C6_Witness ==
    \E e \in DOMAIN batch_executions :
        LET x == batch_executions[e] IN
        /\ pc[e] = "done"
        /\ x["batch_id"] \in batches
        /\ x["batch_id"] \notin prompts
        /\ Failed(e)
        /\ x["error"] = "No prompt configuration found"

\* C7: download_batch_csv returns CSV bytes only for an execution that is
\* complete with success=true; it answers not-complete while complete=false,
\* not-found for an unknown or evicted id, and never a CSV for a failed run.
C7_CsvOnlyForSuccess ==
    /\ \A e \in ExecIds :
         LET r == BatchCsv(e) IN
         /\ ~Known(e) => r.code = 404 /\ r.error = "Execution not found"
         /\ Known(e) /\ ~Complete(e) =>
               r.code = 400 /\ r.error = "Execution not complete"
         /\ Failed(e) => r.code # 200
         /\ r.code = 200 =>
               /\ Succeeded(e)
               /\ r.body = generate_structured_csv(results[e])
               /\ Len(r.body.rows) = batch_executions[e]["total"]
    /\ response.route = "download-batch-csv" /\ response.code = 200 =>
         /\ exc[response.id] = None
         /\ response.body = generate_structured_csv(results[response.id])

\* C7 witness: a client has downloaded the CSV of a two-row run.
C7_Witness ==
    /\ response.route = "download-batch-csv"
    /\ response.code = 200
    /\ Len(response.body.rows) = 2

\* C8: if the upload raises, the execution still ends complete and
\* successful, with the CSV attached and the history row written.
C8_UploadFailureKeepsSuccessAndHistory ==
    \A e \in DOMAIN batch_executions :
        LET x == batch_executions[e] IN
        (calls[e].upload_raised /\ pc[e] = "done") =>
            /\ Succeeded(e)
            /\ "csv_data" \in DOMAIN x
            /\ x["batch_id"] \in DOMAIN execution_history
            /\ execution_history[x["batch_id"]] = HistoryRow(e)

\* The part of C8 that does not depend on the history save: an upload that
\* raised never fails the execution.
UploadFailureStillSucceeds ==
    \A e \in DOMAIN batch_executions :
        LET x == batch_executions[e] IN
        (calls[e].upload_raised /\ pc[e] = "done") =>
            /\ Succeeded(e)
            /\ "csv_data" \in DOMAIN x
            /\ x["csv_data"] = csv_data[e]
            /\ exc[e] = None

\* C9: an execution that ends with success=false leaves the history row its
\* batch had before unchanged.
C9_FailedRunKeepsHistory ==
    \A e \in DOMAIN batch_executions :
        Failed(e) => execution_history = prior_history[e]

\* C10: whenever an execution of batch b is observed complete and
\* successful, the history holds a row for b with this run's total,
\* success_count, error_count and CSV text.
C10_SuccessImpliesHistoryRow ==
    \A e \in DOMAIN batch_executions :
        LET b == batch_executions[e]["batch_id"] IN
        Succeeded(e) =>
            /\ b \in DOMAIN execution_history
            /\ execution_history[b] = HistoryRow(e)


\* The mirror holds a row that execution e wrote.
Mirrored(e) ==
    \E b \in DOMAIN execution_status : execution_status[b].execution_id = e

\* C11: after an execution has become terminal, for whatever reason, the
\* mirror row of its batch records complete=true with the same success flag,
\* error, current, total and counters as the in-memory entry.  Stated for the
\* runs whose mirror row exists, that is, whose first write went through.
C11_MirrorRecordsTerminalState ==
    \A e \in DOMAIN batch_executions :
        LET b == batch_executions[e]["batch_id"] IN
        (pc[e] = "done" /\ b \in DOMAIN execution_status) =>
            /\ execution_status[b].complete = 1
            /\ execution_status[b] = StatusRow(e, batch_executions[e])

\* C12: every terminal execution has its in-memory entry removed once the
\* grace delay has elapsed.  The cleanup thread is the only code that deletes
\* an entry, so an entry whose worker has returned is removed only if that
\* thread has been started.
C12_TerminalEntryIsEvicted ==
    \A e \in ExecIds :
        (pc[e] = "done" /\ Known(e)) => cleanup[e] = "sleeping"

\* C13 as stated: get_batch_progress answers from memory while the entry
\* exists, falls back to the mirror of that execution once the entry is
\* evicted, and answers not-found only when the id is neither in memory nor
\* in the mirror.
C13_ProgressFallsBackToMirror ==
    \A e \in ExecIds :
        LET r == BatchProgress(e) IN
        /\ Known(e) => r.code = 200 /\ r.execution = batch_executions[e]
        /\ r.code = 404 => ~Known(e) /\ ~Mirrored(e)

\* C13, amended: get_batch_progress(execution_id) answers from the in-memory
\* entry while it exists and not-found once the entry is evicted, whether or
\* not the mirror holds a row of that execution; the fallback to the mirror
\* is get_batch_status(batch_id), which answers with the in-memory entry of
\* the batch while there is one, else with the batch's mirror row, and with
\* neither only when both are absent.
C13_StatusFallsBackToMirror ==
    [][/\ (response' # response /\ response'.route = "batch-progress") =>
            LET e == response'.id IN
            IF pc[e] # "idle" /\ cleanup[e] # "done"
            THEN /\ response'.code = 200
                 /\ response'.execution = batch_executions[e]
            ELSE /\ response'.code = 404
                 /\ response'.error = "Execution not found"
       /\ (response' # response /\ response'.route = "batch-status") =>
            LET b    == response'.id
                live == {e \in DOMAIN batch_executions :
                            batch_executions[e]["batch_id"] = b}
            IN  IF live # {}
                THEN /\ response'.has_active_execution
                     /\ response'.execution_id \in live
                     /\ response'.execution =
                           batch_executions[response'.execution_id]
                ELSE IF b \in DOMAIN execution_status
                THEN /\ ~response'.has_active_execution
                     /\ response'.has_persisted_status
                     /\ response'.status = execution_status[b]
                ELSE /\ ~response'.has_active_execution
                     /\ ~response'.has_persisted_status]_vars

\* C13 witness: after the eviction of a finished execution, the status of
\* its batch was answered from the mirror row that execution wrote last.
C13_Witness ==
    \E e \in ExecIds :
        /\ cleanup[e] = "done"
        /\ response.route = "batch-status"
        /\ ~response.has_active_execution
        /\ response.has_persisted_status
        /\ response.status.execution_id = e
        /\ response.status.complete = 1
        /\ BatchProgress(e).code = 404

(***************************************************************************)
(* Properties of the JSON extractor.                                       *)
(***************************************************************************)
\* The helper f has returned.
Returned(f) == call.fn = f /\ call.state = "returned"

\* A key or a string value of v, at any depth, contains a brace.
RECURSIVE HasBrace(_)
HasBrace(v) ==
    \/ \E i \in 1..Len(v.chars) : v.chars[i] \in {"{", "}"}
    \/ \E i \in 1..Len(v.items) :
          \/ \E j \in 1..Len(v.items[i].key) :
                v.items[i].key[j] \in {"{", "}"}
          \/ HasBrace(v.items[i].value)

\* The object without the members of its top level that are schema metadata.
TopLevelData(obj) ==
    LET data == {i \in 1..Len(obj.items) :
                    obj.items[i].key \notin schema_fields}
        Nth(k) == CHOOSE i \in data : Cardinality({j \in data : j < i}) = k - 1
    IN  JObj([k \in 1..Cardinality(data) |-> obj.items[Nth(k)]])

\* C14 as stated: for a text that is prose (its braces balanced or not, or
\* an earlier JSON object), then one well-formed JSON object, then text
\* without braces, the extractor returns the text of that object with the
\* schema metadata of its top level removed.
C14_ExtractsTrailingObject ==
    (Returned("extract") /\ call.shape = "object") =>
        json_loads(call.result) = [ok |-> TRUE, value |-> TopLevelData(call.obj)]

\* C14, amended: the same for an object whose keys and string values contain
\* no brace; what is returned is json.dumps of the object without the
\* schema metadata of its top level.
C14_ExtractsBraceFreeTrailingObject ==
    (Returned("extract") /\ call.shape = "object" /\ ~HasBrace(call.obj)) =>
        call.result = json_dumps(TopLevelData(call.obj))

\* C14 witness: an earlier JSON object, then an object with a metadata key
\* and a nested object written without spaces, then prose; the result is
\* neither the input nor the object's own text.
C14_Witness ==
    /\ Returned("extract")
    /\ call.shape = "object"
    /\ ~HasBrace(call.obj)
    /\ \E i \in 1..Len(call.prefix) : call.prefix[i] = "}"
    /\ call.suffix = <<" ", "x">>
    /\ Len(call.obj.items) = 2
    /\ call.obj.items[1].key = TypeKey
    /\ call.obj.items[2].value.kind = "obj"
    /\ call.text # call.prefix \o json_dumps(call.obj) \o call.suffix
    /\ call.result = json_dumps(JObj(<<call.obj.items[2]>>))

\* Scanning back from the last '}' of the text, the depth (closing braces
\* minus opening braces seen so far) never returns to zero.
NeverBalanced(text) ==
    LET closing == {i \in 1..Len(text) : text[i] = "}"}
        opening == {i \in 1..Len(text) : text[i] = "{"}
    IN  \A i \in closing :
            (\A j \in closing : j <= i) =>
                \A k \in 1..i :
                    Cardinality({j \in closing : k <= j})
                        # Cardinality({j \in opening : k <= j /\ j <= i})

\* r is the text with the whitespace of both ends removed and nothing else
\* changed.
IsTrimmed(r, text) ==
    /\ r # <<>> => r[1] \notin Whitespace /\ r[Len(r)] \notin Whitespace
    /\ \E i \in 0..Len(text) :
          /\ i + Len(r) <= Len(text)
          /\ r = SubSeq(text, i + 1, i + Len(r))
          /\ \A j \in 1..Len(text) :
                (j <= i \/ j > i + Len(r)) => text[j] \in Whitespace

\* C15: if the text contains no '}' at all, or the backward scan from the
\* last '}' never brings the depth back to zero, the extractor returns the
\* text trimmed and otherwise unchanged.
C15_UnbalancedReturnsTrimmedInput ==
    (Returned("extract") /\ NeverBalanced(call.text)) =>
        IsTrimmed(call.result, call.text)

\* C15 witness: a text with both kinds of brace and whitespace at its ends,
\* whose scan never balances, came back trimmed.
C15_Witness ==
    /\ Returned("extract")
    /\ call.shape = "raw"
    /\ NeverBalanced(call.text)
    /\ \E i, j \in 1..Len(call.text) :
          call.text[i] = "{" /\ call.text[j] = "}"
    /\ Head(call.text) = " "
    /\ call.text[Len(call.text)] = " "
    /\ Len(call.result) = Len(call.text) - 2

\* C16 as stated: for every JSON object, parsing what the extractor returns
\* for the object's text gives the object without the schema metadata of
\* its top level.
C16_RoundTrip ==
    (/\ Returned("extract") /\ call.shape = "object"
     /\ call.prefix = <<>> /\ call.suffix = <<>>) =>
        LET parsed == json_loads(call.result) IN
        parsed.ok /\ parsed.value = TopLevelData(call.obj)

\* C16, amended: the round trip holds for every JSON object whose keys and
\* string values contain no brace.
C16_RoundTripBraceFree ==
    (/\ Returned("extract") /\ call.shape = "object"
     /\ call.prefix = <<>> /\ call.suffix = <<>>
     /\ ~HasBrace(call.obj)) =>
        LET parsed == json_loads(call.result) IN
        parsed.ok /\ parsed.value = TopLevelData(call.obj)

\* C16 witness: the round trip of an object with a metadata key at the top
\* level and the same key inside a nested object, which is kept.
C16_Witness ==
    /\ Returned("extract")
    /\ call.shape = "object"
    /\ call.prefix = <<>> /\ call.suffix = <<>>
    /\ ~HasBrace(call.obj)
    /\ Len(call.obj.items) = 2
    /\ call.obj.items[1].key = TypeKey
    /\ call.obj.items[2].value = JObj(<<[key |-> TypeKey,
                                         value |-> JStr(<<"x">>)]>>)
    /\ json_loads(call.result).value = JObj(<<call.obj.items[2]>>)

(***************************************************************************)
(* Properties of the prompt engine.                                        *)
(***************************************************************************)
\* What a placeholder of the given name stands for in a prompt for the
\* record: the string form of a value that is present, not None and not
\* empty, else the not-provided marker.
Substitute(name, record) ==
    IF /\ name \in DOMAIN record
       /\ record[name].kind # "none"
       /\ ~(record[name].kind = "str" /\ record[name].chars = <<>>)
    THEN IF record[name].kind = "str" THEN record[name].chars
         ELSE Decimal(record[name].n)
    ELSE <<"[">> \o name \o <<":", " ", "n", "o", "t", " ", "p", "r", "o",
                                "v", "i", "d", "e", "d", "]">>

RECURSIVE Rendered(_, _)
Rendered(parts, record) ==
    IF parts = <<>> THEN <<>>
    ELSE (IF Head(parts).kind = "lit" THEN Head(parts).chars
          ELSE Substitute(Head(parts).chars, record))
         \o Rendered(Tail(parts), record)

\* C17: build_prompt returns for every template and record; the literal text
\* is kept, every placeholder whose trimmed name has a present, non-empty
\* value is replaced by the value's string form, every other placeholder by
\* "[name: not provided]", and all occurrences of a name alike.
C17_RenderReplacesEveryPlaceholder ==
    Returned("build_prompt") =>
        call.result = Rendered(call.parts, call.record)

\* C17 witness: a name occurs padded and unpadded with the value 0, next to
\* a name the record does not have.
C17_Witness ==
    /\ Returned("build_prompt")
    /\ call.parts = <<Placeholder(<<"a">>, <<" ">>),
                      Placeholder(<<"b">>, <<>>),
                      Placeholder(<<"a">>, <<>>)>>
    /\ call.record = [f \in {<<"a">>} |-> JNum(0)]
    /\ call.result = <<"0">> \o NotProvided(<<"b">>) \o <<"0">>

\* The names of the placeholders of a template, each once, in the order of
\* their first occurrence.
RECURSIVE FirstSeen(_, _)
FirstSeen(parts, seen) ==
    IF parts = <<>> THEN <<>>
    ELSE IF Head(parts).kind = "var" /\ Head(parts).chars \notin seen
    THEN <<Head(parts).chars>>
         \o FirstSeen(Tail(parts), seen \cup {Head(parts).chars})
    ELSE FirstSeen(Tail(parts), seen)

\* C18: extract_variables returns each distinct placeholder name exactly
\* once, in first-seen order, however often the name occurs.
C18_VariablesDistinctFirstSeen ==
    Returned("extract_variables") =>
        call.result = FirstSeen(call.parts, {})

(***************************************************************************)
(* Properties of the CSV text.                                             *)
(***************************************************************************)
\* What a reader of CSV makes of a text: the rows and their cells.  i is the
\* index read next, field and row are what has been read of the current
\* cell and row, quoted tells whether the reader is inside a quoted cell.
RECURSIVE ReadCsv(_, _, _, _, _, _)
ReadCsv(text, i, quoted, field, row, rows) ==
    IF i > Len(text) THEN rows
    ELSE IF quoted
    THEN IF text[i] = Quote /\ At(text, i + 1) = Quote
         THEN ReadCsv(text, i + 2, TRUE, Append(field, Quote), row, rows)
         ELSE IF text[i] = Quote
         THEN ReadCsv(text, i + 1, FALSE, field, row, rows)
         ELSE ReadCsv(text, i + 1, TRUE, Append(field, text[i]), row, rows)
    ELSE IF text[i] = Quote
    THEN ReadCsv(text, i + 1, TRUE, field, row, rows)
    ELSE IF text[i] = ","
    THEN ReadCsv(text, i + 1, FALSE, <<>>, Append(row, field), rows)
    ELSE IF text[i] = "\r" /\ At(text, i + 1) = "\n"
    THEN ReadCsv(text, i + 2, FALSE, <<>>, <<>>,
                 Append(rows, Append(row, field)))
    ELSE ReadCsv(text, i + 1, FALSE, Append(field, text[i]), row, rows)

CsvTable(text) == ReadCsv(text, 1, FALSE, <<>>, <<>>, <<>>)

\* The leaves of a response with their dotted paths: a value that is not an
\* object, under the keys that lead to it.
RECURSIVE Leaves(_, _)
Leaves(obj, path) ==
    UNION {LET m    == obj.items[i]
               here == IF path = <<>> THEN m.key ELSE path \o <<".">> \o m.key
           IN  IF m.value.kind = "obj" THEN Leaves(m.value, here)
               ELSE {[name |-> here, value |-> m.value]} :
           i \in 1..Len(obj.items)}

\* The field names of a response and the text of its cell for a field.
FieldsOf(r) ==
    IF r.kind = "obj"
    THEN {l.name : l \in Leaves(r, <<>>)} \ schema_fields
    ELSE {raw_response}

CellOf(r, name) ==
    IF r.kind # "obj"
    THEN IF name = raw_response THEN r.chars ELSE <<>>
    ELSE LET found == {l \in Leaves(r, <<>>) : l.name = name} IN
         IF found = {} THEN <<>>
         ELSE LET v == (CHOOSE l \in found : TRUE).value IN
              CASE v.kind = "none" -> <<>>
                [] v.kind = "str"  -> v.chars
                [] v.kind = "num"  -> Decimal(v.n)
                [] v.kind = "list" -> json_dumps(v)

\* C19: the header is the identifier column followed by the union of the
\* flattened field names of all responses without the schema metadata keys,
\* each once; there is one data row per result, in result order, with as
\* many cells as the header; a field that a row lacks or whose value is
\* None is an empty cell.
C19_HeaderIsUnionRowsAreFull ==
    Returned("generate_structured_csv") =>
        LET table  == CsvTable(call.result)
            rs     == call.results
            header == table[1]
        IN  /\ Len(table) = Len(rs) + 1
            /\ header[1] = IF call.record_id_field = <<>>
                            THEN <<"R", "e", "c", "o", "r", "d", " ", "I", "D">>
                            ELSE call.record_id_field
            /\ {header[j] : j \in 2..Len(header)}
                  = UNION {FieldsOf(rs[i].response) : i \in 1..Len(rs)}
            /\ \A j, k \in 2..Len(header) : j # k => header[j] # header[k]
            /\ \A i \in 1..Len(rs) :
                  /\ Len(table[i + 1]) = Len(header)
                  /\ table[i + 1][1] = rs[i].record_id
                  /\ \A j \in 2..Len(header) :
                        table[i + 1][j] = CellOf(rs[i].response, header[j])

\* C19 witness: two results with different fields, one with a None value
\* and schema metadata in the other; the cell of the None value and the
\* cell of the field the second row lacks are empty.
C19_Witness ==
    /\ Returned("generate_structured_csv")
    /\ Len(call.results) = 2
    /\ call.results[1].response.kind = "obj"
    /\ \E i \in 1..Len(call.results[1].response.items) :
          call.results[1].response.items[i].value = PyNone
    /\ \E i \in 1..Len(call.results[2].response.items) :
          call.results[2].response.items[i].key = TypeKey
    /\ LET table == CsvTable(call.result) IN
       /\ Len(table) = 3
       /\ Len(table[1]) = 4
       /\ table[2] = <<call.results[1].record_id, <<"[", "1", ",", " ", "2", "]">>,
                       <<>>, <<>>>>
       /\ table[3][2] = <<>>

\* a comes before b in the lexicographic order of code points.
LexBefore(a, b) ==
    \E k \in 0..Len(a) :
        /\ k <= Len(b)
        /\ SubSeq(a, 1, k) = SubSeq(b, 1, k)
        /\ \/ k = Len(a) /\ k < Len(b)
           \/ /\ k < Len(a) /\ k < Len(b)
              /\ \E x, y \in 1..Len(CodePointOrder) :
                    /\ x < y
                    /\ CodePointOrder[x] = a[k + 1]
                    /\ CodePointOrder[y] = b[k + 1]

\* C20: the columns after the identifier are in lexicographic order, and for
\* every permutation of the results the header is the same and the data rows
\* are permuted the same way.
C20_ColumnOrderIndependentOfRowOrder ==
    Returned("generate_structured_csv") =>
        LET table == CsvTable(call.result)
            rs    == call.results
            n     == Len(rs)
        IN  /\ \A j \in 2..(Len(table[1]) - 1) :
                  LexBefore(table[1][j], table[1][j + 1])
            /\ \A p \in {f \in [1..n -> 1..n] :
                             \A i, j \in 1..n : i # j => f[i] # f[j]} :
                  LET other == CsvTable(structured_csv_text(
                                            [i \in 1..n |-> rs[p[i]]],
                                            call.record_id_field))
                  IN  /\ other[1] = table[1]
                      /\ \A i \in 1..n : other[i + 1] = table[p[i] + 1]

\* C20 witness: the field seen first is not the first column, and the two
\* results differ, so that swapping them gives another input.
C20_Witness ==
    /\ Returned("generate_structured_csv")
    /\ Len(call.results) = 2
    /\ call.results[1].response = JObj(<<Member(<<"b">>, JNum(1))>>)
    /\ call.results[2].response.kind = "obj"
    /\ call.results[1] # call.results[2]
    /\ LET table == CsvTable(call.result) IN
       /\ Len(table[1]) = 3
       /\ table[1][3] = <<"b">>
       /\ table[2][3] = <<"1">>

(***************************************************************************)
(* C21.                                                                    *)
(***************************************************************************)
\* The rows of rs whose stored response is one of the outcomes in kinds.
RowsWith(rs, kinds) == {i \in 1..Len(rs) : rs[i].response \in kinds}

\* C21: every processed row adds one to exactly one counter: success_count
\* counts the rows whose parsed object was stored, error_count the rows
\* stored as {raw_response: text} or as {error: message}; and once the
\* progress update of a row has been written (lines 274-276), the stored
\* success_count + error_count = current = the number of result rows.
C21_OneCounterPerRow ==
    \A e \in ExecIds :
        /\ success_count[e] = Cardinality(RowsWith(results[e], {"parsed"}))
        /\ error_count[e] =
               Cardinality(RowsWith(results[e], {"raw_response", "error"}))
        /\ (Known(e) /\ (pc[e] \in {"L277", "L280"}
                           \/ (pc[e] = "L226" /\ idx[e] > 0)))
              => /\ batch_executions[e]["success_count"]
                      + batch_executions[e]["error_count"]
                    = batch_executions[e]["current"]
                 /\ batch_executions[e]["current"] = Len(results[e])

\* Two rows were processed, one of each kind, and the progress update of
\* the second has been written.
C21_Witness ==
    \E e \in ExecIds :
        /\ Known(e)
        /\ pc[e] = "L277"
        /\ Len(results[e]) = 2
        /\ results[e][1].response = "raw_response"
        /\ results[e][2].response = "parsed"
        /\ batch_executions[e]["success_count"] = 1
        /\ batch_executions[e]["error_count"] = 1
        /\ batch_executions[e]["current"] = 2

(***************************************************************************)
(* C22.                                                                    *)
(***************************************************************************)
\* The statements that call persist_execution_status, each with the
\* statement the worker goes on with when the call has returned.
AfterPersist ==
    ("L91" :> "L94") @@ ("L214" :> "L217") @@ ("L280" :> "L226")
        @@ ("L332" :> "L341") @@ ("L352" :> "L361")

\* C22: a mirror write, failed or not, is invisible to the execution: the
\* step of a statement that calls persist_execution_status leaves the
\* in-memory entry, the results, the counters, the CSV and the pending
\* exception as they were and goes on with the same next statement, so the
\* sequence of in-memory states and the terminal state do not depend on
\* which writes failed.
C22_MirrorFailureIsSwallowed ==
    [][\A e \in ExecIds :
          (pc[e] \in DOMAIN AfterPersist /\ pc'[e] # pc[e])
             => /\ pc'[e] = AfterPersist[pc[e]]
                /\ batch_executions' = batch_executions
                /\ exc' = exc
                /\ results' = results
                /\ success_count' = success_count
                /\ error_count' = error_count
                /\ csv_data' = csv_data]_vars

\* Every mirror write of a run failed (the mirror has no row), and the run
\* still ended successful with both rows and its CSV.
C22_Witness ==
    \E e \in ExecIds :
        /\ pc[e] = "done"
        /\ Succeeded(e)
        /\ execution_status = EmptyDict
        /\ Len(results[e]) = 2
        /\ batch_executions[e]["current"] = 2
        /\ batch_executions[e]["csv_data"] = generate_structured_csv(results[e])

(***************************************************************************)
(* C23.                                                                    *)
(***************************************************************************)
\* The identifier the policy gives row i: the configured field, then Id, id,
\* Name, name, then Record_<i>.
PolicyId(record_id_field, record, i) ==
    FirstTruthy(record,
                (IF record_id_field = None THEN <<>> ELSE <<record_id_field>>)
                    \o <<"Id", "id", "Name", "name">>,
                SynthesizedId(i))

\* C23: the identifier of the result row of row i is the value of the
\* configured identifier field if present and non-empty, otherwise the first
\* present non-empty value among Id, id, Name, name in that order, otherwise
\* Record_<i>, for rows that succeeded and for rows recorded as errors; it
\* is never empty.
C23_IdentifierPolicy ==
    Returned("record_id")
        => /\ call.result = PolicyId(call.record_id_field, call.record,
                                     call.idx)
           /\ call.result # <<>>

(***************************************************************************)
(* C24 and C25.                                                            *)
(***************************************************************************)
\* The placeholder names of the call that exist on the dataset.
TemplateFieldsOnDataset ==
    Elements(call.template_fields) \cap call.available_field_names

\* The configured identifier field, if the batch has one.
ConfiguredIdField ==
    IF call.record_id_field = None THEN {} ELSE {call.record_id_field}

\* C24 as stated: the set of fields sent to the dataset query is exactly the
\* template's placeholder names that exist on the dataset plus the batch's
\* configured record-identifier field.
C24_QueryFieldsAreTemplateAndId ==
    Returned("query")
        => Elements(call.result.fields)
              = TemplateFieldsOnDataset \cup ConfiguredIdField

\* C24, amended: the set of fields sent to the dataset query is exactly the
\* template's placeholder names that exist on the dataset, plus those of
\* Name, Title, Id, RecordId, ClaimNumber that exist on the dataset, plus
\* the configured record-identifier field when the batch has one; a template
\* that references no field of the dataset leaves the common fields of the
\* dataset and the identifier field.
C24_QueryFieldsIncludeCommon ==
    Returned("query")
        => Elements(call.result.fields)
              = TemplateFieldsOnDataset
                \cup (Elements(CommonFields) \cap call.available_field_names)
                \cup ConfiguredIdField

\* The template names no field of the dataset, the dataset has Name and Id,
\* and the identifier field ClaimNumber is not a field of the dataset.
C24_Witness ==
    /\ Returned("query")
    /\ call.template_fields = <<"Missing">>
    /\ call.available_field_names = {"Symptoms", "Name", "Id"}
    /\ call.record_id_field = "ClaimNumber"
    /\ call.result.fields = <<"Name", "Id", "ClaimNumber">>

\* C25: whenever the caller supplied a non-empty list of record
\* identifiers, the query carries a membership filter of exactly that list
\* on the identifier field and its limit is the size of the list; without
\* such a list the query has no such filter, carries the saved filter and
\* has a limit of 10,000 rows.
C25_QueryScopedToRecordIds ==
    Returned("query")
        => /\ call.result.saql_filter = call.saql_filter
           /\ IF call.record_ids # <<>>
              THEN /\ call.result.filters.field # None
                   /\ call.result.filters.values = call.record_ids
                   /\ call.result.limit = Len(call.record_ids)
              ELSE /\ call.result.filters = NoFilters
                   /\ call.result.limit = 10000

(***************************************************************************)
(* C26.                                                                    *)
(***************************************************************************)
\* C26: the generation settings in force for the LLM calls of an execution
\* are the process-wide settings with each of temperature, max output
\* tokens and timeout replaced by the value of the batch's prompt
\* configuration when that row defines one.
C26_PromptConfigOverridesSettings ==
    Returned("settings")
        => \A param \in {"temperature", "max_tokens", "timeout"} :
              IF call.prompt_row[param] # <<>>
              THEN call.result[param] = call.prompt_row[param][1]
              ELSE param \in DOMAIN call.global_settings
                      => call.result[param] = call.global_settings[param]

(***************************************************************************)
(* C27.                                                                    *)
(***************************************************************************)
\* The phases in their order; 'Processing n records...' is processing with
\* no row done yet.
PhaseRank(status) ==
    CASE status.text = "Starting..."                -> 0
      [] status.text = "Initializing..."            -> 1
      [] status.text = "Loading dataset records..." -> 2
      [] status.text = "Processing records..."      -> 3
      [] status.text = "Processing record"          -> 3
      [] status.text = "Generating CSV..."          -> 4
      [] status.text = "Saving to history..."       -> 5
      [] status.text = "Uploading to Salesforce..." -> 6
      [] status.text = "Complete"                   -> 7

\* Phase t is the phase s or a later one.
NotBefore(s, t) ==
    \/ PhaseRank(s) < PhaseRank(t)
    \/ PhaseRank(s) = PhaseRank(t) /\ s.i <= t.i

\* C27: the phase of an execution only moves forward through starting,
\* loading-config, loading-records, processing(i of n) for i = 1..n in
\* increasing order, generating-csv, saving-history, uploading, complete;
\* it never returns to an earlier phase, and a failed execution is never in
\* the phase complete: a failure is entered from an earlier phase only.
C27_PhaseMovesForward ==
    [][\A e \in ExecIds :
          (Known(e) /\ Known(e)')
             => LET s == batch_executions[e]["status"]
                    t == batch_executions'[e]["status"]
                IN  /\ NotBefore(s, t)
                    /\ (s # t /\ t.text = "Processing record")
                          => /\ t.i = (IF s.text = "Processing record"
                                       THEN s.i + 1 ELSE 1)
                             /\ t.i <= t.n
                    /\ (s # t /\ t.text = "Generating CSV...")
                          => s.i = s.n
                    /\ Failed(e)' => t.text # "Complete"]_vars

\* A run of two rows has gone through every phase and is complete.
C27_Witness ==
    \E e \in ExecIds :
        /\ Succeeded(e)
        /\ batch_executions[e]["status"].text = "Complete"
        /\ Len(results[e]) = 2
        /\ calls[e].upload = 1

(***************************************************************************)
(* C28.                                                                    *)
(***************************************************************************)
\* C28: if the batch references a dataset configuration that does not exist
\* in storage, the execution is failed with a descriptive message before any
\* row is processed: complete=true, success=false, and the worker does not
\* go on to the query and the LLM calls.
C28_MissingDatasetConfigFails ==
    (/\ Returned("load_batch")
     /\ call.batch_row # <<>>
     /\ call.batch_row[1] \notin {None, ""}
     /\ call.batch_row[1] \notin DOMAIN call.dataset_configs)
        => /\ call.result.next = "return"
           /\ call.result.complete
           /\ ~call.result.success
           /\ call.result.error # None

(***************************************************************************)
(* C29.                                                                    *)
(***************************************************************************)
\* The worker of e is in its row loop (lines 226-281).
InRowLoop(e) == pc[e] \in {"L226", "L274", "L275", "L276", "L277", "L280"}

\* `current` of the in-memory entry and of the mirror row of e's batch.
MemoryCurrent(e) == batch_executions[e]["current"]

MirrorCurrent(e) == execution_status[BatchOf(e)].current

\* C29 as stated: in the row loop the mirror's current is never greater
\* than the in-memory current and lags it by fewer than 10 rows; once the
\* execution has completed successfully the two are equal.
C29_MirrorLagsFewerThanTen ==
    \A e \in ExecIds :
        Known(e)
           => /\ InRowLoop(e)
                    => /\ MirrorCurrent(e) <= MemoryCurrent(e)
                       /\ MemoryCurrent(e) - MirrorCurrent(e) < PersistEvery
              /\ Succeeded(e) => MirrorCurrent(e) = MemoryCurrent(e)

\* C29, amended: in the row loop the mirror's current is never greater than
\* the in-memory current and lags it by at most 10 rows, by exactly 10 only
\* between the update of current for a row whose number is a multiple of 10
\* (line 274) and the mirror write that follows it (line 281); once the
\* final mirror write of a successful execution has returned (line 332) the
\* two are equal.
C29_MirrorLagsAtMostTen ==
    \A e \in ExecIds :
        Known(e)
           => /\ InRowLoop(e)
                    => /\ MirrorCurrent(e) <= MemoryCurrent(e)
                       /\ MemoryCurrent(e) - MirrorCurrent(e) <= PersistEvery
                       /\ MemoryCurrent(e) - MirrorCurrent(e) = PersistEvery
                             => /\ pc[e] \in {"L275", "L276", "L277", "L280"}
                                /\ MemoryCurrent(e) % PersistEvery = 0
              /\ (Succeeded(e) /\ pc[e] \in {"L341", "done"})
                    => MirrorCurrent(e) = MemoryCurrent(e)

\* The tenth row of eleven has been counted in memory and the mirror still
\* holds the row written before the loop.
C29_Witness ==
    \E e \in ExecIds :
        /\ Known(e)
        /\ pc[e] = "L280"
        /\ Len(all_records[e]) = 11
        /\ MemoryCurrent(e) = 10
        /\ MirrorCurrent(e) = 0

(***************************************************************************)
(* C30.                                                                    *)
(***************************************************************************)
\* The response answers a progress poll or a CSV download of e.
Answers(r, e) ==
    /\ r.route \in {"batch-progress", "download-batch-csv"}
    /\ r.id = e

\* C30: an in-memory entry is never removed while its complete flag is
\* false: the only removal is the one of the cleanup timer, which is started
\* after the entry became terminal; while the timer sleeps the entry is in
\* the dict, so a progress poll or a CSV download made then finds it.
C30_RemovedOnlyAfterTerminal ==
    /\ [](\A e \in ExecIds : cleanup[e] = "sleeping" => Complete(e))
    /\ [][\A e \in ExecIds :
             /\ (Known(e) /\ ~Known(e)')
                   => /\ Complete(e)
                      /\ pc[e] = "done"
                      /\ cleanup[e] = "sleeping"
                      /\ cleanup'[e] = "done"
             /\ (cleanup'[e] = "sleeping" /\ response' # response
                 /\ Answers(response', e))
                   => \/ response'.code = 200
                      \/ response'.error # "Execution not found"]_vars

\* A run has ended successfully, its timer has not fired yet, and a CSV
\* download made meanwhile was answered with the CSV.
C30_Witness ==
    \E e \in ExecIds :
        /\ cleanup[e] = "sleeping"
        /\ Succeeded(e)
        /\ response.route = "download-batch-csv"
        /\ response.id = e
        /\ response.code = 200
        /\ response.body = batch_executions[e]["csv_data"]

=============================================================================
